---------------------------- MODULE Spec2Model ----------------------------
(***************************************************************************)
(* A model of services/vizualisation/app.py: the metadata loader, the      *)
(* metadata cleaner, the on-disk cache of get_metadata and the aggregation *)
(* handlers.                                                               *)
(*                                                                         *)
(* Python strings are TLA+ strings, read character by character with       *)
(* SubSeq(s, i, i).  Python floats are exact rationals <<num, den>> in     *)
(* lowest terms (den > 0), except where a definition says that it follows  *)
(* binary64 rounding.  A Python exception is the value or the pc "raised". *)
(***************************************************************************)
EXTENDS Integers, Sequences, FiniteSets, TLC

VARIABLES
    \* dms_to_decimal(degrees, minutes, seconds)
    degrees, minutes, seconds, decimal_degrees, dms_pc,
    \* clean_gps_infos(metadata_to_cln): the table as passed in, the table
    \* being cleaned in place, the loop's position and its counters
    gps_input, metadata_to_cln, gps_file, cpt_valid, cpt_invalid,
    cpt_converted, gps_pc,
    \* the Make cleaning of clean_metadata: the stored string, the value
    \* before and after the last pass, the passes made
    make_input, make_before, make, make_passes,
    \* the DateTimeOriginal cleaning of clean_metadata: datetime.now(), the
    \* table as passed in, the table being cleaned, the loop's position and
    \* its counters
    now, date_input, cln_meta, date_file, cpt, cpt_error, date_pc,
    \* get_metadata_from_mariadb_db: the rows fetched, the mapping built, the
    \* loop's position and the errors printed
    metadata, result, load_image, load_printed, load_pc,
    \* the service: the files on disk, the queries sent to the store, the
    \* requests served, whether the cache file was ever deleted by hand, and
    \* the last request (its handler, its selector, what it returned)
    files, store_queries, requests, deleted, handler, selector, response,
    \* graph_images_size_dynamic: the table of images it is given (how many
    \* rows of each height and width), the number of ranges asked for, and
    \* the count per range it builds
    df_meta, nb_intervals, size_counts, size_pc,
    \* clean_metadata(metadata_to_clean): the table as passed in,
    \* datetime.now(), the table being cleaned, the loop the function is in
    \* and the exception that left it
    metadata_to_clean, cm_now, cm_meta, cm_pc, cm_raised,
    \* categorize_tags(df_meta, categories_list): the tags of the table one
    \* after the other, the list of categories, the similarity the embedding
    \* model gives each tag and category, the dictionary built, the loop's
    \* position
    all_tags, categories_list, similarity, categories, cat_word, cat_pc,
    \* get_colour_name(requested_colour) and what it returns
    requested_colour, actual_name, closest_name, colour_pc,
    \* the counting handlers graph_images_brand and graph_dominant_colors:
    \* the column of the table the handler reads, the number of labels asked
    \* for, the (label, value) pairs before and after the cut, and where the
    \* handler is
    top_column, top_n, top_all, top_pairs, top_pc,
    \* get_coordinates, get_country and display_coordinates_on_map: the
    \* rows of the table, the coordinates dictionary as get_country is
    \* handed it and as it stands, the loop's position, the coordinates sent
    \* to the geocoder, the markers put on the map, and where the call is
    geo_rows, geo_input, coordinates, geo_key, lookups, markers, geo_pc,
    \* graph_images_altitudes(coord_list, nb_inter): the altitudes of the
    \* coordinate list, the number of intervals, the (interval, count) pairs
    coord_list, nb_inter, alt_counts, alt_pc

dmsVars == <<degrees, minutes, seconds, decimal_degrees, dms_pc>>
gpsVars == <<gps_input, metadata_to_cln, gps_file, cpt_valid, cpt_invalid,
             cpt_converted, gps_pc>>

makeVars == <<make_input, make_before, make, make_passes>>
dateVars == <<now, date_input, cln_meta, date_file, cpt, cpt_error, date_pc>>
loadVars == <<metadata, result, load_image, load_printed, load_pc>>
svcVars == <<files, store_queries, requests, deleted, handler, selector, response>>
sizeVars == <<df_meta, nb_intervals, size_counts, size_pc>>
cmVars == <<metadata_to_clean, cm_now, cm_meta, cm_pc, cm_raised>>
catVars == <<all_tags, categories_list, similarity, categories, cat_word, cat_pc>>
colourVars == <<requested_colour, actual_name, closest_name, colour_pc>>
topVars == <<top_column, top_n, top_all, top_pairs, top_pc>>
geoVars == <<geo_rows, geo_input, coordinates, geo_key, lookups, markers, geo_pc>>
altVars == <<coord_list, nb_inter, alt_counts, alt_pc>>

\* what an action of one component leaves alone
notDmsVars == <<gpsVars, makeVars, dateVars, loadVars, svcVars, sizeVars, cmVars, catVars, colourVars, topVars, geoVars, altVars>>
notGpsVars == <<dmsVars, makeVars, dateVars, loadVars, svcVars, sizeVars, cmVars, catVars, colourVars, topVars, geoVars, altVars>>
notMakeVars == <<dmsVars, gpsVars, dateVars, loadVars, svcVars, sizeVars, cmVars, catVars, colourVars, topVars, geoVars, altVars>>
notDateVars == <<dmsVars, gpsVars, makeVars, loadVars, svcVars, sizeVars, cmVars, catVars, colourVars, topVars, geoVars, altVars>>
notLoadVars == <<dmsVars, gpsVars, makeVars, dateVars, svcVars, sizeVars, cmVars, catVars, colourVars, topVars, geoVars, altVars>>
notSvcVars == <<dmsVars, gpsVars, makeVars, dateVars, loadVars, sizeVars, cmVars, catVars, colourVars, topVars, geoVars, altVars>>
notSizeVars == <<dmsVars, gpsVars, makeVars, dateVars, loadVars, svcVars, cmVars, catVars, colourVars, topVars, geoVars, altVars>>
notCmVars == <<dmsVars, gpsVars, makeVars, dateVars, loadVars, svcVars, sizeVars, catVars, colourVars, topVars, geoVars, altVars>>
notCatVars == <<dmsVars, gpsVars, makeVars, dateVars, loadVars, svcVars, sizeVars, cmVars, colourVars, topVars, geoVars, altVars>>
notColourVars == <<dmsVars, gpsVars, makeVars, dateVars, loadVars, svcVars, sizeVars, cmVars, catVars, topVars, geoVars, altVars>>
notTopVars == <<dmsVars, gpsVars, makeVars, dateVars, loadVars, svcVars, sizeVars, cmVars, catVars, colourVars, geoVars, altVars>>
notGeoVars == <<dmsVars, gpsVars, makeVars, dateVars, loadVars, svcVars, sizeVars, cmVars, catVars, colourVars, topVars, altVars>>
notAltVars == <<dmsVars, gpsVars, makeVars, dateVars, loadVars, svcVars, sizeVars, cmVars, catVars, colourVars, topVars, geoVars>>

vars == <<dmsVars, gpsVars, makeVars, dateVars, loadVars, svcVars, sizeVars, cmVars, catVars, colourVars, topVars, geoVars, altVars>>

(***************************************************************************)
(* Numbers                                                                 *)
(***************************************************************************)
Abs(n) == IF n < 0 THEN -n ELSE n

RECURSIVE Gcd(_, _)
Gcd(a, b) == IF b = 0 THEN a ELSE Gcd(b, a % b)

\* the rational n/d (d # 0) in lowest terms with a positive denominator
Rat(n, d) ==
    LET g == Gcd(Abs(n), Abs(d))
        s == IF d < 0 THEN -1 ELSE 1
    IN  <<(s * n) \div g, (s * d) \div g>>

RatInt(n) == <<n, 1>>
RatAdd(a, b) == Rat(a[1] * b[2] + b[1] * a[2], a[2] * b[2])
RatDivInt(a, k) == Rat(a[1], a[2] * k)
RatAbs(a) == <<Abs(a[1]), a[2]>>
RatNeg(a) == <<-a[1], a[2]>>
RatLt(a, b) == a[1] * b[2] < b[1] * a[2]
RatLe(a, b) == a[1] * b[2] <= b[1] * a[2]
RatZero == RatInt(0)

(***************************************************************************)
(* Strings and values                                                      *)
(***************************************************************************)
Char(s, i) == SubSeq(s, i, i)
Contains(s, c) == \E i \in 1..Len(s) : Char(s, i) = c

Digits == {"0", "1", "2", "3", "4", "5", "6", "7", "8", "9"}
DigitVal(c) ==
    CASE c = "0" -> 0 [] c = "1" -> 1 [] c = "2" -> 2 [] c = "3" -> 3
      [] c = "4" -> 4 [] c = "5" -> 5 [] c = "6" -> 6 [] c = "7" -> 7
      [] c = "8" -> 8 [] c = "9" -> 9
AllDigits(s) == \A i \in 1..Len(s) : Char(s, i) \in Digits

RECURSIVE DigitsToInt(_)
DigitsToInt(s) ==
    IF Len(s) = 0 THEN 0
    ELSE 10 * DigitsToInt(SubSeq(s, 1, Len(s) - 1)) + DigitVal(Char(s, Len(s)))

RECURSIVE Pow10(_)
Pow10(k) == IF k = 0 THEN 1 ELSE 10 * Pow10(k - 1)

\* Python's float(s) for a string of digits, '.', '-' and letters:
\* <<"ok", rational>> or <<"ValueError">>.  The strings of the model hold no
\* blank, '+', '_', exponent, "inf" or "nan".
PyFloat(s) ==
    LET neg  == Len(s) > 0 /\ Char(s, 1) = "-"
        body == IF neg THEN SubSeq(s, 2, Len(s)) ELSE s
        dots == {i \in 1..Len(body) : Char(body, i) = "."}
        dot  == IF dots = {} THEN Len(body) + 1 ELSE CHOOSE i \in dots : TRUE
        ip   == SubSeq(body, 1, dot - 1)
        fp   == SubSeq(body, dot + 1, Len(body))
        ok   == /\ Cardinality(dots) <= 1
                /\ AllDigits(ip) /\ AllDigits(fp)
                /\ Len(ip) + Len(fp) > 0
        mag  == Rat(DigitsToInt(ip) * Pow10(Len(fp)) + DigitsToInt(fp),
                    Pow10(Len(fp)))
    IN  IF ~ok THEN <<"ValueError">>
        ELSE <<"ok", IF neg THEN RatNeg(mag) ELSE mag>>

\* the values a property bag holds: the string as stored, and what the
\* cleaner puts in its place
Str(s) == <<"str", s>>
Float(r) == <<"float", r>>
None == <<"None">>
IsStr(v) == v[1] = "str"
IsFloat(v) == v[1] = "float"
Has(bag, k) == k \in DOMAIN bag
Put(bag, k, v) == [x \in DOMAIN bag \cup {k} |-> IF x = k THEN v ELSE bag[x]]

(***************************************************************************)
(* Each specification below runs one part of the program; the variables of *)
(* the other parts then rest at these values.                              *)
(***************************************************************************)
DmsIdle ==
    /\ degrees = RatZero
    /\ minutes = RatZero
    /\ seconds = RatZero
    /\ decimal_degrees = RatZero
    /\ dms_pc = "idle"

GpsIdle ==
    /\ gps_input = <<>>
    /\ metadata_to_cln = <<>>
    /\ gps_file = 1
    /\ cpt_valid = 0
    /\ cpt_invalid = 0
    /\ cpt_converted = 0
    /\ gps_pc = "idle"

MakeIdle ==
    /\ make_input = ""
    /\ make_before = ""
    /\ make = ""
    /\ make_passes = 0

DateIdle ==
    /\ now = <<1, 1, 1, 0, 0, 0>>
    /\ date_input = <<>>
    /\ cln_meta = <<>>
    /\ date_file = 1
    /\ cpt = 0
    /\ cpt_error = 0
    /\ date_pc = "idle"

LoadIdle ==
    /\ metadata = <<>>
    /\ result = <<>>
    /\ load_image = 1
    /\ load_printed = <<>>
    /\ load_pc = "idle"

SvcIdle ==
    /\ files = {}
    /\ store_queries = 0
    /\ requests = 0
    /\ deleted = FALSE
    /\ handler = ""
    /\ selector = ""
    /\ response = <<>>

SizeIdle ==
    /\ df_meta = <<>>
    /\ nb_intervals = 0
    /\ size_counts = <<>>
    /\ size_pc = "idle"

CmIdle ==
    /\ metadata_to_clean = <<>>
    /\ cm_now = <<>>
    /\ cm_meta = <<>>
    /\ cm_pc = "idle"
    /\ cm_raised = ""

CatIdle ==
    /\ all_tags = <<>>
    /\ categories_list = <<>>
    /\ similarity = <<>>
    /\ categories = <<>>
    /\ cat_word = 0
    /\ cat_pc = "idle"

ColourIdle ==
    /\ requested_colour = <<>>
    /\ actual_name = None
    /\ closest_name = None
    /\ colour_pc = "idle"

TopIdle ==
    /\ top_column = <<>>
    /\ top_n = 0
    /\ top_all = <<>>
    /\ top_pairs = <<>>
    /\ top_pc = "idle"

GeoIdle ==
    /\ geo_rows = <<>>
    /\ geo_input = <<>>
    /\ coordinates = <<>>
    /\ geo_key = 0
    /\ lookups = <<>>
    /\ markers = <<>>
    /\ geo_pc = "idle"

AltIdle ==
    /\ coord_list = <<>>
    /\ nb_inter = 0
    /\ alt_counts = <<>>
    /\ alt_pc = "idle"

(***************************************************************************)
(* dms_to_decimal                                                          *)
(***************************************************************************)
\* the conversion without the sign of the degrees put back
dms_to_decimal_unsigned(d, m, s) ==
    RatAdd(RatAdd(RatAbs(d), RatDivInt(m, 60)), RatDivInt(s, 3600))

dms_to_decimal(d, m, s) ==
    LET dd == RatAdd(RatAdd(RatAbs(d), RatDivInt(m, 60)), RatDivInt(s, 3600))
    IN  IF RatLt(d, RatZero) THEN RatNeg(dd) ELSE dd

\* the arguments tried: whole and half degrees, minutes and seconds of
\* either sign, up to MaxDms degrees, MaxDms * 60 minutes, MaxDms * 3600 s
MaxDms == 2
DmsDegrees == {Rat(i, 2) : i \in (-2 * MaxDms)..(2 * MaxDms)}
DmsMinutes == {RatInt(30 * i) : i \in (-2 * MaxDms)..(2 * MaxDms)}
DmsSeconds == {RatInt(1800 * i) : i \in (-2 * MaxDms)..(2 * MaxDms)}

DmsInit ==
    /\ degrees \in DmsDegrees
    /\ minutes \in DmsMinutes
    /\ seconds \in DmsSeconds
    /\ decimal_degrees = RatZero
    /\ dms_pc = "call"

DmsToDecimal ==
    /\ dms_pc = "call"
    /\ decimal_degrees' = dms_to_decimal(degrees, minutes, seconds)
    /\ dms_pc' = "return"
    /\ UNCHANGED <<degrees, minutes, seconds, notDmsVars>>

DmsNext == DmsToDecimal

DmsReturned == dms_pc = "return"

\* C6 as claimed: dms_to_decimal returns a negative value for every input
\* with degrees < 0, whatever the sign and magnitude of minutes and seconds.
C6_NegativeDegreesAlwaysNegative ==
    (DmsReturned /\ RatLt(degrees, RatZero)) => RatLt(decimal_degrees, RatZero)

\* C6 as amended: dms_to_decimal returns a negative value for every input
\* with degrees < 0 whose minutes and seconds are not negative.
C6_NegativeDegreesNonNegativeMinSec ==
    (/\ DmsReturned
     /\ RatLt(degrees, RatZero)
     /\ RatLe(RatZero, minutes)
     /\ RatLe(RatZero, seconds)) => RatLt(decimal_degrees, RatZero)

\* C6 witness: a conversion of negative degrees with positive minutes and
\* seconds has returned a negative value.
C6_Witness ==
    /\ DmsReturned
    /\ RatLt(degrees, RatZero)
    /\ RatLt(RatZero, minutes)
    /\ RatLt(RatZero, seconds)
    /\ RatLt(decimal_degrees, RatZero)

(***************************************************************************)
(* clean_gps_infos                                                         *)
(***************************************************************************)
StrOf(v) == v[2]

\* file_meta[k] != '0.000000' or file_meta[k2] != '0.000000', evaluated as
\* Python does: the second key is looked up only when the first comparison
\* is false.  "True", "False" or "KeyError".
NotZeroOr(fm, k, k2) ==
    IF ~Has(fm, k) THEN "KeyError"
    ELSE IF fm[k] # Str("0.000000") THEN "True"
    ELSE IF ~Has(fm, k2) THEN "KeyError"
    ELSE IF fm[k2] # Str("0.000000") THEN "True"
    ELSE "False"

has_dms_values(fm) == NotZeroOr(fm, "LatitudeDegrees", "LongitudeDegrees")
has_decimal_values(fm) == NotZeroOr(fm, "Latitude", "Longitude")

\* float(file_meta[k]): <<"ok", r>>, <<"KeyError">> or <<"ValueError">>
FloatOf(fm, k) == IF ~Has(fm, k) THEN <<"KeyError">> ELSE PyFloat(StrOf(fm[k]))

\* the first element of a sequence of results that is not "ok", or <<"ok">>
FirstError(rs) ==
    LET bad == {i \in 1..Len(rs) : rs[i][1] # "ok"}
    IN  IF bad = {} THEN <<"ok">>
        ELSE rs[CHOOSE i \in bad : \A j \in bad : i <= j]

\* should_convert with the test of the decimal point left out
should_convert_dms_only(fm) == has_dms_values(fm) = "True"

\* should_convert (line 123)
should_convert(fm) ==
    ~Contains(StrOf(fm["Latitude"]), ".") /\ has_dms_values(fm) = "True"

\* the two calls of dms_to_decimal of lines 127-135 on the six floats a, or
\* the exception the first float() that failed raised
DmsOfFloats(a) ==
    IF FirstError(a)[1] # "ok" THEN FirstError(a)
    ELSE <<"ok", dms_to_decimal(a[1][2], a[2][2], a[3][2]),
                 dms_to_decimal(a[4][2], a[5][2], a[6][2])>>

\* the latitude and longitude computed from the DMS fields (lines 127-135)
DmsCoordinates(fm) ==
    DmsOfFloats(<<FloatOf(fm, "LatitudeDegrees"), FloatOf(fm, "LatitudeMinutes"),
                  FloatOf(fm, "LatitudeSeconds"), FloatOf(fm, "LongitudeDegrees"),
                  FloatOf(fm, "LongitudeMinutes"), FloatOf(fm, "LongitudeSeconds")>>)

\* the two floats a, or the exception the first float() that failed raised
DecimalOfFloats(a) ==
    IF FirstError(a)[1] # "ok" THEN FirstError(a) ELSE <<"ok", a[1][2], a[2][2]>>

\* the latitude and longitude read from the decimal fields (lines 140-141)
DecimalCoordinates(fm) ==
    DecimalOfFloats(<<FloatOf(fm, "Latitude"), FloatOf(fm, "Longitude")>>)

\* lines 144-146: the coordinates c written to the bag, or the exception
\* met on the way to them, the bag then being as it was
WithCoordinates(fm, outcome, c) ==
    IF c[1] # "ok" THEN <<c[1], fm>>
    ELSE <<outcome, Put(Put(fm, "Latitude", Float(c[2])), "Longitude", Float(c[3]))>>

\* the else branch without the reset of Longitude
NoGpsLatitudeOnly(fm) == Put(Put(fm, "Latitude", None), "Altitude", None)

\* the else branch of lines 148-151
NoGps(fm) == Put(Put(Put(fm, "Latitude", None), "Longitude", None), "Altitude", None)

\* one iteration of the loop of clean_gps_infos on the bag fm:
\* <<outcome, bag>>, outcome "skipped" (no Latitude key), "converted" (from
\* DMS), "valid" (from the decimal fields), "invalid" (no GPS data), or the
\* exception raised, the bag then being as it was
clean_gps_file(fm) ==
    IF ~Has(fm, "Latitude") THEN <<"skipped", fm>>
    ELSE IF has_dms_values(fm) = "KeyError" THEN <<"KeyError", fm>>
    ELSE IF has_decimal_values(fm) = "KeyError" THEN <<"KeyError", fm>>
    ELSE IF has_dms_values(fm) = "True" \/ has_decimal_values(fm) = "True"
    THEN IF should_convert(fm)
         THEN WithCoordinates(fm, "converted", DmsCoordinates(fm))
         ELSE WithCoordinates(fm, "valid", DecimalCoordinates(fm))
    ELSE <<"invalid", NoGps(fm)>>

GpsExceptions == {"KeyError", "ValueError"}

\* ---- the tables clean_gps_infos is tried on ----
\* a key the bag does not hold
Absent == "<absent>"
AbsentDms == <<Absent, Absent, Absent>>
ZeroDms == <<"0.000000", "0.000000", "0.000000">>

\* the bag of the stored fields f (key -> string), without the absent keys
BagOf(f) == [k \in {x \in DOMAIN f : f[x] # Absent} |-> Str(f[k])]

GpsBag(lat, lon, latDms, lonDms) ==
    BagOf([k \in {"Latitude", "Longitude", "Altitude",
                  "LatitudeDegrees", "LatitudeMinutes", "LatitudeSeconds",
                  "LongitudeDegrees", "LongitudeMinutes", "LongitudeSeconds"} |->
            CASE k = "Latitude" -> lat
              [] k = "Longitude" -> lon
              [] k = "Altitude" -> "35.000000"
              [] k = "LatitudeDegrees" -> latDms[1]
              [] k = "LatitudeMinutes" -> latDms[2]
              [] k = "LatitudeSeconds" -> latDms[3]
              [] k = "LongitudeDegrees" -> lonDms[1]
              [] k = "LongitudeMinutes" -> lonDms[2]
              [] k = "LongitudeSeconds" -> lonDms[3]])

GpsLatitudes == {Absent, "0.000000", "0", "48.856600", "48", "x"}
GpsLongitudes == {Absent, "0.000000", "2.352200", "2"}
GpsLatitudeDms == {AbsentDms, ZeroDms,
                   <<"0.000000", "30.000000", "0.000000">>,
                   <<"48.000000", "51.000000", "36.000000">>,
                   <<"-12.000000", "30.000000", "x">>}
GpsLongitudeDms == {AbsentDms, ZeroDms, <<"2.000000", "21.000000", "0.000000">>}

GpsBags ==
    {GpsBag(lat, lon, la, lo) : lat \in GpsLatitudes, lon \in GpsLongitudes,
                                la \in GpsLatitudeDms, lo \in GpsLongitudeDms}

\* the other files of a table: a file with decimal coordinates, a file with
\* no GPS data, and a file whose rows stop after Latitude
GpsOtherBags ==
    {GpsBag("48.856600", "2.352200", ZeroDms, ZeroDms),
     GpsBag("0.000000", "0.000000", ZeroDms, ZeroDms),
     GpsBag("48.856600", Absent, AbsentDms, AbsentDms)}

\* the largest number of files of a table
MaxFiles == 2

\* the tables of 1..MaxFiles files, one of them any bag of GpsBags
IsGpsTable(t) ==
    \E n \in 1..MaxFiles : \E p \in 1..n : \E r \in GpsBags :
        \E o \in [1..n -> GpsOtherBags] :
            t = [i \in 1..n |-> IF i = p THEN r ELSE o[i]]

GpsInit ==
    /\ IsGpsTable(gps_input)
    /\ metadata_to_cln = gps_input
    /\ gps_file = 1
    /\ cpt_valid = 0
    /\ cpt_invalid = 0
    /\ cpt_converted = 0
    /\ gps_pc = "loop"

\* one iteration of the for loop of lines 115-152; an exception leaves the
\* function with the files before this one cleaned
CleanGpsFile ==
    /\ gps_pc = "loop"
    /\ gps_file <= Len(metadata_to_cln)
    /\ \E r \in {clean_gps_file(metadata_to_cln[gps_file])} :
           IF r[1] \in GpsExceptions
           THEN /\ gps_pc' = "raised"
                /\ UNCHANGED <<metadata_to_cln, gps_file, cpt_valid,
                               cpt_invalid, cpt_converted>>
           ELSE /\ metadata_to_cln' = [metadata_to_cln EXCEPT ![gps_file] = r[2]]
                /\ gps_file' = gps_file + 1
                /\ cpt_valid' = cpt_valid + (IF r[1] \in {"valid", "converted"} THEN 1 ELSE 0)
                /\ cpt_invalid' = cpt_invalid + (IF r[1] = "invalid" THEN 1 ELSE 0)
                /\ cpt_converted' = cpt_converted + (IF r[1] = "converted" THEN 1 ELSE 0)
                /\ gps_pc' = "loop"
    /\ UNCHANGED <<gps_input, notGpsVars>>

\* the loop is over: return metadata_to_cln (line 160)
CleanGpsReturn ==
    /\ gps_pc = "loop"
    /\ gps_file > Len(metadata_to_cln)
    /\ gps_pc' = "returned"
    /\ UNCHANGED <<gps_input, metadata_to_cln, gps_file, cpt_valid, cpt_invalid,
                   cpt_converted, notGpsVars>>

GpsNext == CleanGpsFile \/ CleanGpsReturn

GpsReturned == gps_pc = "returned"
\* the files whose iteration is over
GpsCleaned == 1..(gps_file - 1)
Populated(bag, k) == Has(bag, k) /\ bag[k] # None
IsNoGps(bag) ==
    /\ Has(bag, "Latitude") /\ bag["Latitude"] = None
    /\ Has(bag, "Longitude") /\ bag["Longitude"] = None
    /\ Has(bag, "Altitude") /\ bag["Altitude"] = None
IsZeroField(bag, k) == Has(bag, k) /\ PyFloat(StrOf(bag[k])) = <<"ok", RatZero>>
HasDot(bag) == Contains(StrOf(bag["Latitude"]), ".")

\* C1: after clean_gps_infos returns, every record has Latitude and Longitude
\* either both set to a numeric value or both absent/None.
C1_LatLonBothOrNeither ==
    GpsReturned =>
        \A i \in 1..Len(metadata_to_cln) :
            LET bag == metadata_to_cln[i]
            IN  \/ /\ Has(bag, "Latitude") /\ IsFloat(bag["Latitude"])
                   /\ Has(bag, "Longitude") /\ IsFloat(bag["Longitude"])
                \/ /\ ~Populated(bag, "Latitude")
                   /\ ~Populated(bag, "Longitude")

\* C9: a cleaned record with GPS data whose stored Latitude holds a decimal
\* point has the decimal fields converted to numbers as its latitude and
\* longitude, and only records whose Latitude holds no decimal point are
\* counted as converted from the DMS fields.
C9_DmsOnlyWithoutDecimalPoint ==
    /\ \A i \in GpsCleaned :
          LET raw == gps_input[i]  cln == metadata_to_cln[i]
          IN  (Has(raw, "Latitude") /\ ~IsNoGps(cln) /\ HasDot(raw)) =>
                  /\ cln["Latitude"] = Float(PyFloat(StrOf(raw["Latitude"]))[2])
                  /\ cln["Longitude"] = Float(PyFloat(StrOf(raw["Longitude"]))[2])
    /\ cpt_converted <=
          Cardinality({i \in GpsCleaned :
                          Has(gps_input[i], "Latitude") /\ ~HasDot(gps_input[i])})

\* C9 witness: clean_gps_infos has returned a table with a record cleaned
\* from its decimal fields although its DMS fields give another latitude,
\* and a record converted from its DMS fields.
C9_Witness ==
    /\ GpsReturned
    /\ cpt_converted > 0
    /\ \E i \in GpsCleaned :
          /\ Has(gps_input[i], "Latitude") /\ HasDot(gps_input[i])
          /\ DmsCoordinates(gps_input[i])[1] = "ok"
          /\ IsFloat(metadata_to_cln[i]["Latitude"])
          /\ metadata_to_cln[i]["Latitude"] # Float(DmsCoordinates(gps_input[i])[2])

AllGpsFieldsZero(bag) ==
    \A k \in {"Latitude", "Longitude",
              "LatitudeDegrees", "LatitudeMinutes", "LatitudeSeconds",
              "LongitudeDegrees", "LongitudeMinutes", "LongitudeSeconds"} :
        IsZeroField(bag, k)

\* C10 as claimed: a record whose decimal Latitude/Longitude are zero and
\* whose DMS degrees, minutes and seconds are all zero is cleaned to "no GPS
\* data" (Latitude, Longitude, Altitude None), and a record is only cleaned
\* to no-GPS when all of those fields are zero.
C10_NoGpsIffAllFieldsZero ==
    \A i \in GpsCleaned :
        Has(gps_input[i], "Latitude") =>
            (AllGpsFieldsZero(gps_input[i]) <=> IsNoGps(metadata_to_cln[i]))

FourFieldsZeroString(bag) ==
    \A k \in {"Latitude", "Longitude", "LatitudeDegrees", "LongitudeDegrees"} :
        Has(bag, k) /\ bag[k] = Str("0.000000")

\* C10 as amended: a record is cleaned to "no GPS data" (Latitude, Longitude,
\* Altitude None) exactly when its Latitude, Longitude, LatitudeDegrees and
\* LongitudeDegrees are all the string '0.000000'; minutes and seconds are
\* not looked at.
C10_NoGpsIffFourFieldsZeroString ==
    \A i \in GpsCleaned :
        Has(gps_input[i], "Latitude") =>
            (FourFieldsZeroString(gps_input[i]) <=> IsNoGps(metadata_to_cln[i]))

\* C10 witness: clean_gps_infos has returned a table in which an all-zero
\* record is cleaned to no GPS data.
C10_Witness ==
    /\ GpsReturned
    /\ \E i \in GpsCleaned :
          /\ AllGpsFieldsZero(gps_input[i])
          /\ IsNoGps(metadata_to_cln[i])
          /\ cpt_invalid > 0

(***************************************************************************)
(* clean_metadata: the Make property                                       *)
(***************************************************************************)
Letters ==
    {"A", "B", "C", "D", "E", "F", "G", "H", "I", "J", "K", "L", "M", "N",
     "O", "P", "Q", "R", "S", "T", "U", "V", "W", "X", "Y", "Z",
     "a", "b", "c", "d", "e", "f", "g", "h", "i", "j", "k", "l", "m", "n",
     "o", "p", "q", "r", "s", "t", "u", "v", "w", "x", "y", "z"}

\* ''.join(filter(str.isalpha, s))
RECURSIVE FilterAlpha(_)
FilterAlpha(s) ==
    IF Len(s) = 0 THEN ""
    ELSE (IF Char(s, 1) \in Letters THEN Char(s, 1) ELSE "") \o FilterAlpha(Tail(s))

StartsWith(s, old) == Len(old) <= Len(s) /\ SubSeq(s, 1, Len(old)) = old

\* s.replace(old, new) for a non-empty old: the occurrences of old are found
\* from the left, each search starting after the last occurrence replaced
RECURSIVE Replace(_, _, _)
Replace(s, old, new) ==
    IF Len(s) = 0 THEN ""
    ELSE IF StartsWith(s, old)
         THEN new \o Replace(SubSeq(s, Len(old) + 1, Len(s)), old, new)
         ELSE Char(s, 1) \o Replace(Tail(s), old, new)

\* the value line 178 gives the Make property
CleanMake(s) ==
    Replace(Replace(Replace(Replace(Replace(FilterAlpha(s),
        "CORPORATION", ""), "CORP", ""), "COMPANY", ""), "LTD", ""),
        "IMAGING", "")

\* the Make strings tried: some makes as cameras write them, and every
\* string of at most MaxMakeLen characters of MakeAlphabet
MaxMakeLen == 6
MakeAlphabet == {"L", "T", "D", " "}
MakeExamples ==
    {"NIKON CORPORATION", "EASTMAN KODAK COMPANY", "OLYMPUS IMAGING CORP.",
     "Canon", "PENTAX Corporation", "SAMSUNG TECHWIN CO., LTD.", "CCORPORP"}

RECURSIVE StringsOfLen(_)
StringsOfLen(n) ==
    IF n = 0 THEN {""}
    ELSE {c \o s : c \in MakeAlphabet, s \in StringsOfLen(n - 1)}

MakeStrings == MakeExamples \cup UNION {StringsOfLen(n) : n \in 0..MaxMakeLen}

MakeInit ==
    /\ make_input \in MakeStrings
    /\ make_before = make_input
    /\ make = make_input
    /\ make_passes = 0

\* line 178 applied to the Make property (again: to its own output)
NormalizeMake ==
    /\ make_passes < 2
    /\ make_before' = make
    /\ make' = CleanMake(make)
    /\ make_passes' = make_passes + 1
    /\ UNCHANGED <<make_input, notMakeVars>>

MakeNext == NormalizeMake

\* C5: the Make normalization is idempotent: applying it to its own output
\* returns that output unchanged.
C5_MakeCleaningIdempotent == make_passes = 2 => make = make_before

(***************************************************************************)
(* clean_metadata: the DateTimeOriginal property                           *)
(***************************************************************************)
\* s.split(sep) for a one-character sep
RECURSIVE Split(_, _)
Split(s, sep) ==
    IF ~Contains(s, sep) THEN <<s>>
    ELSE LET i == CHOOSE k \in 1..Len(s) :
                    Char(s, k) = sep /\ \A j \in 1..(k - 1) : Char(s, j) # sep
         IN  <<SubSeq(s, 1, i - 1)>> \o Split(SubSeq(s, i + 1, Len(s)), sep)

\* s[:n]
Prefix(s, n) == SubSeq(s, 1, IF n < Len(s) THEN n ELSE Len(s))

IsLeap(y) == (y % 4 = 0 /\ y % 100 # 0) \/ y % 400 = 0
DaysInMonth(y, m) ==
    IF m = 2 THEN (IF IsLeap(y) THEN 29 ELSE 28)
    ELSE IF m \in {4, 6, 9, 11} THEN 30 ELSE 31

\* a field of one or two digits with a value in lo..hi, as the directives
\* %m, %d, %H, %M and %S match it
TwoDigitField(f, lo, hi) ==
    /\ Len(f) \in {1, 2} /\ AllDigits(f)
    /\ DigitsToInt(f) >= lo /\ DigitsToInt(f) <= hi

\* datetime.datetime.strptime(s, '%Y:%m:%d %H:%M:%S') for a string with
\* single blanks: <<"ok", <<year, month, day, hour, minute, second>>>> or
\* <<"ValueError">>
Strptime(s) ==
    LET halves == Split(s, " ")
        d == Split(halves[1], ":")
        t == Split(halves[2], ":")
        matches ==
            /\ Len(halves) = 2 /\ Len(d) = 3 /\ Len(t) = 3
            /\ Len(d[1]) = 4 /\ AllDigits(d[1])
            /\ TwoDigitField(d[2], 1, 12)
            /\ TwoDigitField(d[3], 1, 31)
            /\ TwoDigitField(t[1], 0, 23)
            /\ TwoDigitField(t[2], 0, 59)
            /\ TwoDigitField(t[3], 0, 61)
        y == DigitsToInt(d[1])
        valid ==
            /\ y >= 1
            /\ DigitsToInt(d[3]) <= DaysInMonth(y, DigitsToInt(d[2]))
            /\ DigitsToInt(t[3]) <= 59
    IN  IF matches /\ valid
        THEN <<"ok", <<y, DigitsToInt(d[2]), DigitsToInt(d[3]),
                       DigitsToInt(t[1]), DigitsToInt(t[2]), DigitsToInt(t[3])>>>>
        ELSE <<"ValueError">>

\* lines 194-195: the stored string brought to 'YYYY:MM:DD HH:MM:SS' and parsed
ParseDate(date) ==
    Strptime(Prefix(Split(Replace(Replace(date, "T", " "), "-", ":"), "+")[1], 19))

DateTime(t) == <<"datetime", t>>
IsDateTime(v) == v[1] = "datetime"

\* the test of line 197 with the whole date compared
IsAfterToday(t, today) ==
    \/ t[1] > today[1]
    \/ t[1] = today[1] /\ t[2] > today[2]
    \/ t[1] = today[1] /\ t[2] = today[2] /\ t[3] > today[3]

\* the test of line 197 with the current year let through as well as the next
IsAfterNextYear(t, today) == t[1] > today[1] + 1

\* line 197: .year > datetime.datetime.now().year
IsAfterThisYear(t, today) == t[1] > today[1]

\* lines 195-206 once the string is parsed to r: the except clause, the
\* test of the year, and the timestamp kept
WithDate(fm, today, r) ==
    IF r[1] = "ValueError" THEN <<"error", Put(fm, "DateTimeOriginal", None)>>
    ELSE IF IsAfterThisYear(r[2], today)
    THEN <<"error", Put(fm, "DateTimeOriginal", None)>>
    ELSE <<"ok", Put(fm, "DateTimeOriginal", DateTime(r[2]))>>

\* one iteration of the loop of lines 189-206 on the bag fm:
\* <<outcome, bag>>, outcome "skipped" (no DateTimeOriginal), "ok" or "error"
clean_date_file(fm, today) ==
    IF ~Has(fm, "DateTimeOriginal") THEN <<"skipped", fm>>
    ELSE WithDate(fm, today, ParseDate(StrOf(fm["DateTimeOriginal"])))

\* the stored DateTimeOriginal strings tried
DateStrings ==
    {Absent,
     "2020:06:15 10:30:00", "2023:03:01 08:00:00", "2023:06:20 00:00:00",
     "2023-09-20T18:45:10+02:00", "2024:01:01 00:00:00", "2025-07-04T12:00:00",
     "2024-01-01", "2023:02:30 10:00:00", "0000:00:00 00:00:00", "unknown"}
\* the moments the cleaning runs at
DateNows == {<<2023, 6, 15, 12, 0, 0>>, <<2023, 12, 31, 23, 59, 59>>,
             <<2024, 2, 29, 0, 0, 0>>}

DateTables ==
    UNION {[1..n -> {BagOf([k \in {"DateTimeOriginal"} |-> d]) : d \in DateStrings}] :
           n \in 1..MaxFiles}

DateInit ==
    /\ now \in DateNows
    /\ date_input \in DateTables
    /\ cln_meta = date_input
    /\ date_file = 1
    /\ cpt = 0
    /\ cpt_error = 0
    /\ date_pc = "loop"

\* one iteration of the for loop of lines 189-206
CleanDateFile ==
    /\ date_pc = "loop"
    /\ date_file <= Len(cln_meta)
    /\ \E r \in {clean_date_file(cln_meta[date_file], now)} :
           /\ cln_meta' = [cln_meta EXCEPT ![date_file] = r[2]]
           /\ cpt' = cpt + (IF r[1] = "ok" THEN 1 ELSE 0)
           /\ cpt_error' = cpt_error + (IF r[1] = "error" THEN 1 ELSE 0)
    /\ date_file' = date_file + 1
    /\ UNCHANGED <<now, date_input, date_pc, notDateVars>>

\* the loop is over (lines 210-211)
CleanDateDone ==
    /\ date_pc = "loop"
    /\ date_file > Len(cln_meta)
    /\ date_pc' = "done"
    /\ UNCHANGED <<now, date_input, cln_meta, date_file, cpt, cpt_error,
                   notDateVars>>

DateNext == CleanDateFile \/ CleanDateDone

DateCleaned == 1..(date_file - 1)
HasDate(i) == Has(date_input[i], "DateTimeOriginal")
StoredDate(i) == ParseDate(StrOf(date_input[i]["DateTimeOriginal"]))

\* C4 as claimed: every record whose DateTimeOriginal parses to a timestamp
\* later than the current date (a later month or day of the current year
\* included) is set to None; no cleaned record keeps a timestamp after the
\* current date.
C4_NoDateAfterToday ==
    \A i \in DateCleaned :
        HasDate(i) =>
            /\ (StoredDate(i)[1] = "ok" /\ IsAfterToday(StoredDate(i)[2], now)) =>
                  cln_meta[i]["DateTimeOriginal"] = None
            /\ IsDateTime(cln_meta[i]["DateTimeOriginal"]) =>
                  ~IsAfterToday(cln_meta[i]["DateTimeOriginal"][2], now)

\* C4 as amended: every record whose DateTimeOriginal parses to a timestamp
\* of a year later than the current year is set to None; no cleaned record
\* keeps a timestamp of a year after the current year.
C4_NoDateAfterThisYear ==
    \A i \in DateCleaned :
        HasDate(i) =>
            /\ (StoredDate(i)[1] = "ok" /\ StoredDate(i)[2][1] > now[1]) =>
                  cln_meta[i]["DateTimeOriginal"] = None
            /\ \/ cln_meta[i]["DateTimeOriginal"] = None
               \/ /\ IsDateTime(cln_meta[i]["DateTimeOriginal"])
                  /\ cln_meta[i]["DateTimeOriginal"][2][1] <= now[1]

\* C4 witness: the loop is over, a timestamp of a later year was set to None
\* and a timestamp of the current year was kept.
C4_Witness ==
    /\ date_pc = "done"
    /\ \E i \in DateCleaned :
          /\ HasDate(i) /\ StoredDate(i)[1] = "ok"
          /\ StoredDate(i)[2][1] > now[1]
          /\ cln_meta[i]["DateTimeOriginal"] = None
    /\ \E i \in DateCleaned :
          /\ HasDate(i)
          /\ IsDateTime(cln_meta[i]["DateTimeOriginal"])
          /\ cln_meta[i]["DateTimeOriginal"][2][1] = now[1]

(***************************************************************************)
(* get_metadata_from_mariadb_db                                            *)
(***************************************************************************)
\* the loop of lines 80-83 over the rows props from row i on, the bag so
\* far being bag: <<"ok", bag>>, or <<"ValueError", bag>> with the bag as it
\* was when a row did not split into a key and a value
RECURSIVE LoadProps(_, _, _)
LoadProps(props, i, bag) ==
    IF i > Len(props) THEN <<"ok", bag>>
    ELSE IF props[i] = "" THEN LoadProps(props, i + 1, bag)
    ELSE LET kv == Split(props[i], "\t")
         IN  IF Len(kv) # 2 THEN <<"ValueError", bag>>
             ELSE LoadProps(props, i + 1, Put(bag, kv[1], Str(kv[2])))

\* the try block of lines 78-83 for one fetched row image = (filename,
\* metadata): <<outcome, result>>; the entry is made empty first and filled
\* row by row
LoadImage(res, image) ==
    LET r == LoadProps(Split(image[2], "\n"), 1, <<>>)
    IN  <<r[1], Put(res, image[1], r[2])>>

\* the metadata column of the rows fetched: the key/value rows of a file
\* joined by line feeds, each 'key<TAB>value'
LoadMetadataStrings ==
    {"Make\tNIKON CORPORATION\nImageWidth\t640",
     "Make\tCanon\n\nImageWidth\t800",
     "",
     "ImageDescription",
     "Make\tNIKON\nImageDescription\tline one\nline two\nImageWidth\t640",
     "Make\tSONY\tDSC\nImageWidth\t640",
     "Longitude\t2.352200\nLatitude"}

FileName(i) == CASE i = 1 -> "a.jpg" [] i = 2 -> "b.jpg" [] i = 3 -> "c.jpg"
                 [] OTHER -> "d.jpg"

\* the results of the query: one row per filename (GROUP BY filename)
LoadQueryResults ==
    UNION {{[i \in 1..n |-> <<FileName(i), m[i]>>] : m \in [1..n -> LoadMetadataStrings]} :
           n \in 1..MaxFiles}

LoadInit ==
    /\ metadata \in LoadQueryResults
    /\ result = <<>>
    /\ load_image = 1
    /\ load_printed = <<>>
    /\ load_pc = "loop"

\* one iteration of the for loop of lines 76-85; the except clause prints
\* the error and the loop goes on
LoadOneImage ==
    /\ load_pc = "loop"
    /\ load_image <= Len(metadata)
    /\ \E r \in {LoadImage(result, metadata[load_image])} :
           /\ result' = r[2]
           /\ load_printed' = IF r[1] = "ok" THEN load_printed
                              ELSE Append(load_printed, metadata[load_image][1])
    /\ load_image' = load_image + 1
    /\ UNCHANGED <<metadata, load_pc, notLoadVars>>

\* return result (line 87)
LoadReturn ==
    /\ load_pc = "loop"
    /\ load_image > Len(metadata)
    /\ load_pc' = "returned"
    /\ UNCHANGED <<metadata, result, load_image, load_printed,
                   notLoadVars>>

LoadNext == LoadOneImage \/ LoadReturn

\* a row of the file that is not empty does not split into key and value
HasMalformedRow(m) ==
    \E i \in 1..Len(Split(m, "\n")) :
        Split(m, "\n")[i] # "" /\ Len(Split(Split(m, "\n")[i], "\t")) # 2

\* C7: when parsing the rows of a file fails, the error is caught, loading
\* continues with the next file, and the returned mapping has no entry for
\* the offending file.
C7_MalformedFileHasNoEntry ==
    load_pc = "returned" =>
        \A i \in 1..Len(metadata) :
            IF HasMalformedRow(metadata[i][2])
            THEN metadata[i][1] \notin DOMAIN result
            ELSE metadata[i][1] \in DOMAIN result

(***************************************************************************)
(* get_metadata and the handlers' choice of chart                          *)
(***************************************************************************)
\* the file get_metadata looks for (line 234)
CacheFile == "mon_dataframe.csv"
\* metadata_path (line 28) and the file get_metadata writes (line 247)
MetadataDir == "./metadata"
MetadataCsv == "./metadata/metadata.csv"

\* get_metadata on the disk fs: <<what the caller gets, the disk after, the
\* queries sent to the store>>.  The caller gets the DataFrame read from the
\* cache file, or the JSON string of line 254 (request.method is never None
\* while a request is served), or the ValueError that clean_metadata lets
\* through when the store holds a row it cannot convert (cleanable tells
\* whether it holds none), or the OSError of to_csv when the directory
\* metadata_path does not exist.
get_metadata(fs, cleanable) ==
    IF CacheFile \in fs THEN <<"DataFrame", fs, 0>>
    ELSE IF ~cleanable THEN <<"ValueError", fs, 1>>
    ELSE IF MetadataDir \notin fs THEN <<"OSError", fs, 1>>
    ELSE <<"str", fs \cup {MetadataCsv}, 1>>

\* what each handler returns for its selector: the charts rendered, in the
\* order of the calls, or the error raised
BarPieAll(t) ==
    CASE t = "bar" -> <<"bar">>
      [] t = "pie" -> <<"pie">>
      [] t = "all" -> <<"bar", "pie">>
      [] OTHER -> <<"ValueError">>

graph_images_size_dynamic(graph_type) == BarPieAll(graph_type)

graph_images_datetime(graph_type) ==
    CASE graph_type = "bar" -> <<"bar">>
      [] graph_type = "pie" -> <<"pie">>
      [] graph_type = "curve" -> <<"curve">>
      [] graph_type = "all" -> <<"bar", "pie", "curve">>
      [] OTHER -> <<"ValueError">>

graph_images_brand(graph_type) == BarPieAll(graph_type)

display_coordinates_on_map(output_type) ==
    CASE output_type = "html" -> <<"html">>
      [] output_type = "png" -> <<"png">>
      [] OTHER -> <<"ValueError">>

graph_images_countries(graph) ==
    CASE graph = "bar" -> <<"bar">>
      [] graph = "pie" -> <<"pie">>
      [] OTHER -> <<"bar", "pie">>

graph_images_altitudes(graph) ==
    CASE graph = "histogram" -> <<"histogram">>
      [] graph = "pie" -> <<"pie">>
      [] graph = "bar" -> <<"bar">>
      [] OTHER -> <<"histogram", "bar", "pie">>

graph_dominant_colors(graph) ==
    CASE graph = "bar" -> <<"bar">>
      [] graph = "pie" -> <<"pie">>
      [] graph = "treemap" -> <<"treemap">>
      [] OTHER -> <<"bar", "pie", "treemap">>

graph_top_tags(graph) ==
    CASE graph = "bar" -> <<"bar">>
      [] graph = "pie" -> <<"pie">>
      [] OTHER -> <<"bar", "pie">>

\* the selector values the docstring of each handler gives
Documented(h) ==
    CASE h = "graph_images_size_dynamic" -> {"bar", "pie", "all"}
      [] h = "graph_images_datetime" -> {"bar", "pie", "curve", "all"}
      [] h = "graph_images_brand" -> {"bar", "pie", "all"}
      [] h = "display_coordinates_on_map" -> {"html", "png"}
      [] h = "graph_images_countries" -> {"bar", "pie", "all"}
      [] h = "graph_images_altitudes" -> {"histogram", "pie", "all"}
      [] h = "graph_dominant_colors" -> {"bar", "pie", "treemap", "all"}
      [] h = "graph_top_tags" -> {"bar", "pie", "treemap", "all"}
      [] OTHER -> {}

\* the selector values requests come with
Selectors == {"bar", "pie", "all", "curve", "histogram", "treemap", "html",
              "png", "scatter", ""}
Errors == {<<"ValueError">>, <<"TypeError">>, <<"OSError">>}

\* the largest number of requests served
MaxRequests == 3

SvcInit ==
    /\ files \in SUBSET {MetadataDir}
    /\ store_queries = 0
    /\ requests = 0
    /\ deleted = FALSE
    /\ handler = ""
    /\ selector = ""
    /\ response = <<>>

\* a handler that starts with df_meta = get_metadata() and then indexes
\* df_meta by column: with the JSON string of line 254 the indexing raises
\* TypeError; with the DataFrame the handler goes on to its charts
ChartRequest(h, sel, charts) ==
    /\ requests < MaxRequests
    /\ \E md \in {get_metadata(files, cleanable) : cleanable \in BOOLEAN} :
          /\ files' = md[2]
          /\ store_queries' = store_queries + md[3]
          /\ response' = CASE md[1] = "DataFrame" -> charts
                           [] md[1] = "str" -> <<"TypeError">>
                           [] OTHER -> <<md[1]>>
    /\ requests' = requests + 1
    /\ handler' = h
    /\ selector' = sel
    /\ UNCHANGED <<deleted, notSvcVars>>

\* GET /metadata (lines 227-254)
GetMetadata ==
    /\ requests < MaxRequests
    /\ \E md \in {get_metadata(files, cleanable) : cleanable \in BOOLEAN} :
          /\ files' = md[2]
          /\ store_queries' = store_queries + md[3]
          /\ response' = <<md[1]>>
    /\ requests' = requests + 1
    /\ handler' = "get_metadata"
    /\ selector' = ""
    /\ UNCHANGED <<deleted, notSvcVars>>

GraphImagesSizeDynamic ==
    \E t \in Selectors :
        ChartRequest("graph_images_size_dynamic", t, graph_images_size_dynamic(t))

GraphImagesDatetime ==
    \E t \in Selectors :
        ChartRequest("graph_images_datetime", t, graph_images_datetime(t))

GraphImagesBrand ==
    \E t \in Selectors :
        ChartRequest("graph_images_brand", t, graph_images_brand(t))

DisplayCoordinatesOnMap ==
    \E t \in Selectors :
        ChartRequest("display_coordinates_on_map", t, display_coordinates_on_map(t))

GraphImagesCountries ==
    \E t \in Selectors :
        ChartRequest("graph_images_countries", t, graph_images_countries(t))

GraphDominantColors ==
    \E t \in Selectors :
        ChartRequest("graph_dominant_colors", t, graph_dominant_colors(t))

GraphTopTags ==
    \E t \in Selectors :
        ChartRequest("graph_top_tags", t, graph_top_tags(t))

\* graph_images_altitudes is handed its coordinates and does not call
\* get_metadata (lines 718-763)
GraphImagesAltitudes ==
    /\ requests < MaxRequests
    /\ \E t \in Selectors :
          /\ selector' = t
          /\ response' = graph_images_altitudes(t)
    /\ requests' = requests + 1
    /\ handler' = "graph_images_altitudes"
    /\ UNCHANGED <<files, store_queries, deleted,
                   notSvcVars>>

\* someone creates the directory metadata_path
MakeMetadataDir ==
    /\ MetadataDir \notin files
    /\ files' = files \cup {MetadataDir}
    /\ UNCHANGED <<store_queries, requests, deleted, handler, selector, response,
                   notSvcVars>>

\* someone copies the snapshot written by line 247 to the place line 234
\* looks at
PlaceCacheFile ==
    /\ MetadataCsv \in files
    /\ CacheFile \notin files
    /\ files' = files \cup {CacheFile}
    /\ UNCHANGED <<store_queries, requests, deleted, handler, selector, response,
                   notSvcVars>>

\* someone deletes the cache file: the manual invalidation
DeleteCacheFile ==
    /\ CacheFile \in files
    /\ files' = files \ {CacheFile}
    /\ deleted' = TRUE
    /\ UNCHANGED <<store_queries, requests, handler, selector, response,
                   notSvcVars>>

SvcNext ==
    \/ GetMetadata
    \/ GraphImagesSizeDynamic
    \/ GraphImagesDatetime
    \/ GraphImagesBrand
    \/ DisplayCoordinatesOnMap
    \/ GraphImagesCountries
    \/ GraphImagesAltitudes
    \/ GraphDominantColors
    \/ GraphTopTags
    \/ MakeMetadataDir
    \/ PlaceCacheFile
    \/ DeleteCacheFile

\* C2: starting with no cache file on disk, only the first get_metadata
\* request queries the store, and it persists the cleaned table to the cache
\* file; while the file is not deleted by hand, every later request finds
\* it and returns its content without querying the store.
C2_OnlyFirstRequestQueriesStore ==
    ~deleted =>
        /\ store_queries <= 1
        /\ (handler = "get_metadata" /\ response = <<"str">>) => CacheFile \in files

\* C3: every handler that takes a graph-type or output-type selector rejects
\* a selector value outside its documented set with an error and renders no
\* chart for it.
C3_InvalidSelectorRejected ==
    (handler # "" /\ handler # "get_metadata" /\ selector \notin Documented(handler))
        => response \in Errors

(***************************************************************************)
(* graph_images_size_dynamic: the ranges and the count per range           *)
(*                                                                         *)
(* Python's / is the binary64 division: the quotient of two integers is    *)
(* the float nearest to the exact quotient (ties to the even mantissa).    *)
(* FloatDiv gives, for small positive integers a and b, the exponent j of  *)
(* the quotient (2^j <= a/b < 2^(j+1)), the side the float lies on (-1     *)
(* below the exact quotient, 0 on it, 1 above) and the integer r with      *)
(* |float - a/b| = (r / b) * 2^(j-52): r is the remainder of the division  *)
(* carried to the 53 bits of the mantissa, or b minus it when the mantissa *)
(* is rounded up.                                                          *)
(***************************************************************************)
RECURSIVE FloorLog2(_)
FloorLog2(x) == IF x < 2 THEN 0 ELSE 1 + FloorLog2(x \div 2)

RECURSIVE UpShift(_, _)
UpShift(a, b) == IF a >= b THEN 0 ELSE 1 + UpShift(2 * a, b)

RECURSIVE PowMod2(_, _)
PowMod2(k, b) == IF k = 0 THEN 1 % b ELSE (2 * PowMod2(k - 1, b)) % b

MantissaBits == 52

FloatExp(a, b) == IF a >= b THEN FloorLog2(a \div b) ELSE 0 - UpShift(a, b)
FloatRem(a, b) == ((a % b) * PowMod2(MantissaBits - FloatExp(a, b), b)) % b
FloatOdd(a, b) ==
    ((a % (2 * b)) * PowMod2(MantissaBits - FloatExp(a, b), 2 * b)) % (2 * b) >= b
FloatUp(a, b) ==
    \/ 2 * FloatRem(a, b) > b
    \/ 2 * FloatRem(a, b) = b /\ FloatOdd(a, b)
FloatDiv(a, b) ==
    IF FloatRem(a, b) = 0 THEN <<FloatExp(a, b), 0, 0>>
    ELSE IF FloatUp(a, b) THEN <<FloatExp(a, b), 1, b - FloatRem(a, b)>>
    ELSE <<FloatExp(a, b), -1, FloatRem(a, b)>>

\* x * 2^a <= y * 2^b, for exponents of either sign
Lowest(a, b) == IF a < b THEN (IF a < 0 THEN a ELSE 0) ELSE (IF b < 0 THEN b ELSE 0)
LeScaled(x, a, y, b) == x * 2^(a - Lowest(a, b)) <= y * 2^(b - Lowest(a, b))

\* int(num_images / (num_images / nb_intervals)), line 451.  With
\* q = float(n / nb): when q is the exact quotient or below it, n / q is nb
\* or just above it and int() gives nb.  When q is above the exact quotient,
\* n / q is below nb by d = nb*t / (1+t), t = r * 2^(j-52) / n, and the
\* second division rounds it back to nb only if d is at most half the gap
\* between nb and the float before it, 2^(e-53) with 2^e < nb; otherwise the
\* result is below nb and int() gives nb - 1.
NumBinsOf(n, nb, q) ==
    IF q[2] <= 0 THEN nb
    ELSE IF LeScaled(q[3] * nb, q[1] + 1, n, FloorLog2(nb)) THEN nb
    ELSE nb - 1
num_bins(n, nb) == NumBinsOf(n, nb, FloatDiv(n, nb))

\* i * (max_min_size / num_bins), line 454, for the edge number i of k: the
\* edge is <<i * m, k, below>>, the rational i*m/k, and below tells that
\* i*m/k is an integer E and the float is the one just before E: the width
\* m/k was rounded down and i times its error is more than half the gap
\* between E and the float before it.
IsPow2(x) == 2^FloorLog2(x) = x
EdgeBelowOf(i, k, E, w) ==
    /\ w[2] < 0
    /\ ~LeScaled(i * w[3], w[1] + 1 + (IF IsPow2(E) THEN 1 ELSE 0), k, FloorLog2(E))
EdgeBelow(m, k, i) ==
    /\ i > 0
    /\ (i * m) % k = 0
    /\ EdgeBelowOf(i, k, (i * m) \div k, FloatDiv(m, k))
bins(m, k) == [i \in 1..(k + 1) |-> <<(i - 1) * m, k, EdgeBelow(m, k, i - 1)>>]

\* int(bins[i]) and v <= bins[i] for an integer v
IntOfEdge(e) == IF e[3] THEN (e[1] \div e[2]) - 1 ELSE e[1] \div e[2]
LeEdge(v, e) == IF e[3] THEN v * e[2] < e[1] ELSE v * e[2] <= e[1]

\* line 457
labels(b) ==
    [i \in 1..(Len(b) - 1) |->
        ToString(IntOfEdge(b[i])) \o "-" \o ToString(IntOfEdge(b[i + 1]))]

\* the rows of the table: <<ImageHeight, ImageWidth>>
SizeRows == {<<1, 1>>, <<80, 61>>, <<100, 150>>, <<400, 250>>, <<300, 300>>,
             <<640, 450>>, <<1600, 900>>}

\* line 446
min_size(row) == IF row[1] <= row[2] THEN row[1] ELSE row[2]

RowsOf(df) == {row \in DOMAIN df : df[row] > 0}

RECURSIVE CountRows(_, _)
CountRows(df, rows) ==
    IF rows = {} THEN 0
    ELSE LET row == CHOOSE x \in rows : TRUE
         IN  df[row] + CountRows(df, rows \ {row})

\* line 449 and line 450
max_min_size(df) ==
    CHOOSE m \in {min_size(row) : row \in RowsOf(df)} :
        \A row \in RowsOf(df) : min_size(row) <= m
num_images(df) == CountRows(df, RowsOf(df))

\* pd.cut, line 460, and value_counts, line 463: a row falls in the range
\* number i when bins[i] < min_size <= bins[i + 1], and in none otherwise;
\* pd.cut raises ValueError when two labels are the same
InRange(row, b, i) == ~LeEdge(min_size(row), b[i]) /\ LeEdge(min_size(row), b[i + 1])
CutCounts(df, b, l) ==
    IF Cardinality({l[i] : i \in DOMAIN l}) # Len(l) THEN <<"ValueError">>
    ELSE <<"ok", l, [i \in 1..Len(l) |->
                       CountRows(df, {row \in RowsOf(df) : InRange(row, b, i)})]>>
SizeCountsOf(df, nb) ==
    IF num_bins(num_images(df), nb) = 0 THEN <<"ZeroDivisionError">>
    ELSE CutCounts(df, bins(max_min_size(df), num_bins(num_images(df), nb)),
                   labels(bins(max_min_size(df), num_bins(num_images(df), nb))))

\* the largest number of rows with the same height and width, and the
\* largest number of ranges asked for
MaxCopies == 2
MaxIntervals == 7

SizeInit ==
    /\ df_meta \in [SizeRows -> 0..MaxCopies]
    /\ RowsOf(df_meta) # {}
    /\ nb_intervals \in 1..MaxIntervals
    /\ size_counts = <<>>
    /\ size_pc = "called"

\* lines 443-463
GraphImagesSizeCounts ==
    /\ size_pc = "called"
    /\ size_counts' = SizeCountsOf(df_meta, nb_intervals)
    /\ size_pc' = "counted"
    /\ UNCHANGED <<df_meta, nb_intervals, notSizeVars>>

SizeNext == GraphImagesSizeCounts

RECURSIVE SumSeq(_)
SumSeq(q) == IF q = <<>> THEN 0 ELSE Head(q) + SumSeq(Tail(q))

\* C8: for a table of images with positive smaller sides and nb_intervals
\* at least 1, graph_images_size_dynamic builds exactly nb_intervals ranges
\* and counts every image in exactly one of them: the counts add up to the
\* number of images.
C8_NbIntervalsRangesCountEveryImage ==
    size_pc = "counted" =>
        /\ size_counts[1] = "ok"
        /\ Len(size_counts[2]) = nb_intervals
        /\ SumSeq(size_counts[3]) = num_images(df_meta)

(***************************************************************************)
(* clean_metadata: the four loops, one after the other                     *)
(***************************************************************************)
List(q) == <<"list", q>>

\* a string between two single quotes, with no quote inside
IsQuoted(s) ==
    /\ Len(s) >= 2 /\ Char(s, 1) = "'" /\ Char(s, Len(s)) = "'"
    /\ ~Contains(SubSeq(s, 2, Len(s) - 1), "'")

RECURSIVE LStrip(_)
LStrip(s) == IF Len(s) > 0 /\ Char(s, 1) = " " THEN LStrip(Tail(s)) ELSE s

\* eval(s) for the strings a tag list is stored as: a list display of
\* single-quoted strings gives the list; a bare word is a name that is not
\* defined; anything else does not parse
EvalTags(s) ==
    IF Len(s) >= 2 /\ Char(s, 1) = "[" /\ Char(s, Len(s)) = "]"
    THEN IF LStrip(SubSeq(s, 2, Len(s) - 1)) = "" THEN <<"ok", <<>>>>
         ELSE LET items == Split(SubSeq(s, 2, Len(s) - 1), ",")
              IN  IF \A i \in 1..Len(items) : IsQuoted(LStrip(items[i]))
                  THEN <<"ok", [i \in 1..Len(items) |->
                                  SubSeq(LStrip(items[i]), 2, Len(LStrip(items[i])) - 1)]>>
                  ELSE <<"SyntaxError">>
    ELSE IF Len(s) > 0 /\ \A i \in 1..Len(s) : Char(s, i) \in Letters
    THEN <<"NameError">>
    ELSE <<"SyntaxError">>

\* lines 177-180 on the bag fm
clean_make_file(fm) ==
    IF Has(fm, "Make") THEN Put(fm, "Make", Str(CleanMake(StrOf(fm["Make"])))) ELSE fm

\* lines 214-219 on the bag fm, once the string is evaluated to r
WithTags(fm, r) == IF r[1] = "ok" THEN <<"ok", Put(fm, "tags", List(r[2]))>> ELSE <<r[1], fm>>
clean_tags_file(fm) ==
    IF ~Has(fm, "tags") THEN <<"ok", fm>>
    ELSE WithTags(fm, EvalTags(StrOf(fm["tags"])))

\* the loop of lines 189-206 on the whole table
CleanDates(t, today) == [i \in 1..Len(t) |-> clean_date_file(t[i], today)[2]]

\* a loop with no try around it, from the file i on: <<"ok", table>>, or the
\* exception of the first file that raises, with the files before it cleaned
RECURSIVE CleanTagsFrom(_, _)
CleanTagsFrom(t, i) ==
    IF i > Len(t) THEN <<"ok", t>>
    ELSE IF clean_tags_file(t[i])[1] # "ok" THEN <<clean_tags_file(t[i])[1], t>>
    ELSE CleanTagsFrom([t EXCEPT ![i] = clean_tags_file(t[i])[2]], i + 1)

RECURSIVE CleanGpsFrom(_, _)
CleanGpsFrom(t, i) ==
    IF i > Len(t) THEN <<"ok", t>>
    ELSE IF clean_gps_file(t[i])[1] \in GpsExceptions THEN <<clean_gps_file(t[i])[1], t>>
    ELSE CleanGpsFrom([t EXCEPT ![i] = clean_gps_file(t[i])[2]], i + 1)

\* ---- the tables clean_metadata is tried on ----
CmMakes == {Absent, "NIKON CORPORATION"}
CmDates == {Absent, "2020:06:15 10:30:00", "unknown"}
CmTags == {Absent, "['cat', 'dog']", "[]", "['cat'", "cat"}
CmLatitudes == {Absent, "48.856600", "x"}

CmBag(mk, date, tags, lat) ==
    BagOf([k \in {"Make", "DateTimeOriginal", "tags", "Latitude", "Longitude",
                  "Altitude", "LatitudeDegrees", "LongitudeDegrees"} |->
            CASE k = "Make" -> mk
              [] k = "DateTimeOriginal" -> date
              [] k = "tags" -> tags
              [] k = "Latitude" -> lat
              [] k = "Longitude" -> IF lat = Absent THEN Absent ELSE "2.352200"
              [] k = "Altitude" -> IF lat = Absent THEN Absent ELSE "35.000000"
              [] OTHER -> IF lat = Absent THEN Absent ELSE "0.000000"])

CmBags == {CmBag(mk, d, t, lat) : mk \in CmMakes, d \in CmDates, t \in CmTags,
                                   lat \in CmLatitudes}
\* the other files of a table: files that clean without failure
CmOtherBags == {CmBag("Canon", "2023-09-20T18:45:10+02:00", "['sea']", "48.856600"),
                CmBag("PENTAX Corporation", Absent, "[]", Absent)}

IsCmTable(t) ==
    \E n \in 1..MaxFiles : \E p \in 1..n : \E r \in CmBags :
        \E o \in [1..n -> CmOtherBags] :
            t = [i \in 1..n |-> IF i = p THEN r ELSE o[i]]

CmInit ==
    /\ IsCmTable(metadata_to_clean)
    /\ cm_now = <<2023, 6, 15, 12, 0, 0>>
    /\ cm_meta = metadata_to_clean
    /\ cm_pc = "make"
    /\ cm_raised = ""

\* lines 174-182
CleanMakeValues ==
    /\ cm_pc = "make"
    /\ cm_meta' = [i \in 1..Len(cm_meta) |-> clean_make_file(cm_meta[i])]
    /\ cm_pc' = "date"
    /\ UNCHANGED <<metadata_to_clean, cm_now, cm_raised, notCmVars>>

\* lines 184-211
CleanDateValues ==
    /\ cm_pc = "date"
    /\ cm_meta' = CleanDates(cm_meta, cm_now)
    /\ cm_pc' = "tags"
    /\ UNCHANGED <<metadata_to_clean, cm_now, cm_raised, notCmVars>>

\* lines 213-219: no try, the exception of eval leaves clean_metadata
CleanTagsValues ==
    /\ cm_pc = "tags"
    /\ \E r \in {CleanTagsFrom(cm_meta, 1)} :
          /\ cm_meta' = r[2]
          /\ cm_pc' = IF r[1] = "ok" THEN "gps" ELSE "raised"
          /\ cm_raised' = IF r[1] = "ok" THEN "" ELSE r[1]
    /\ UNCHANGED <<metadata_to_clean, cm_now, notCmVars>>

\* lines 221-224: clean_gps_infos, no try, and the return
CleanGpsInfosAndReturn ==
    /\ cm_pc = "gps"
    /\ \E r \in {CleanGpsFrom(cm_meta, 1)} :
          /\ cm_meta' = r[2]
          /\ cm_pc' = IF r[1] = "ok" THEN "returned" ELSE "raised"
          /\ cm_raised' = IF r[1] = "ok" THEN "" ELSE r[1]
    /\ UNCHANGED <<metadata_to_clean, cm_now, notCmVars>>

CmNext ==
    \/ CleanMakeValues
    \/ CleanDateValues
    \/ CleanTagsValues
    \/ CleanGpsInfosAndReturn

\* the fields of the file i whose cleaning fails
BadDate(i) ==
    /\ Has(metadata_to_clean[i], "DateTimeOriginal")
    /\ ParseDate(StrOf(metadata_to_clean[i]["DateTimeOriginal"]))[1] # "ok"
BadTags(i) ==
    /\ Has(metadata_to_clean[i], "tags")
    /\ EvalTags(StrOf(metadata_to_clean[i]["tags"]))[1] # "ok"
BadGps(i) ==
    /\ Has(metadata_to_clean[i], "Latitude")
    /\ PyFloat(StrOf(metadata_to_clean[i]["Latitude"]))[1] # "ok"

\* C11: a cleaning failure on one field of one file (unparseable date,
\* non-numeric GPS value, undecodable tag string) never aborts
\* clean_metadata: the function returns, the field is absent (None), the
\* file is in the result.
C11_CleaningFailureNeverAborts ==
    /\ cm_pc # "raised"
    /\ cm_pc = "returned" =>
          /\ Len(cm_meta) = Len(metadata_to_clean)
          /\ \A i \in 1..Len(cm_meta) :
                /\ BadDate(i) => cm_meta[i]["DateTimeOriginal"] = None
                /\ BadTags(i) => cm_meta[i]["tags"] = None
                /\ BadGps(i) => cm_meta[i]["Latitude"] = None

(***************************************************************************)
(* categorize_tags                                                         *)
(***************************************************************************)
\* the similarities of the model: the cosine of two vectors, from -1 to 1,
\* counted in halves
Similarities == {-2, 0, 1, 2}
MinusOne == -2

\* the inner loop of lines 939-943 from the category number i on, with the
\* best similarity and category so far: a category replaces the best one
\* when its similarity is not below it
RECURSIVE ChooseLastBest(_, _, _, _, _)
ChooseLastBest(word, cats, sim, i, best) ==
    IF i > Len(cats) THEN best
    ELSE IF sim[word, cats[i]] >= best[1]
    THEN ChooseLastBest(word, cats, sim, i + 1, <<sim[word, cats[i]], cats[i]>>)
    ELSE ChooseLastBest(word, cats, sim, i + 1, best)

\* the inner loop of lines 939-943 from the category number i on, with
\* <<max_similarity, chosen_category>> so far
RECURSIVE ChooseCategory(_, _, _, _, _)
ChooseCategory(word, cats, sim, i, best) ==
    IF i > Len(cats) THEN best
    ELSE IF sim[word, cats[i]] > best[1]
    THEN ChooseCategory(word, cats, sim, i + 1, <<sim[word, cats[i]], cats[i]>>)
    ELSE ChooseCategory(word, cats, sim, i + 1, best)

\* lines 930-932: an empty dictionary per category
EmptyCategories(cats) == [c \in {cats[i] : i \in 1..Len(cats)} |-> <<>>]

\* ---- the calls categorize_tags is tried on ----
TagWords == {"cat", "sea"}
CategoryNames == {"animal", "nature", "other"}
MaxTags == 2

SeqsUpTo(S, n) == UNION {[1..k -> S] : k \in 0..n}
NoRepeat(q) == \A i, j \in 1..Len(q) : q[i] = q[j] => i = j

CatInit ==
    /\ all_tags \in SeqsUpTo(TagWords, MaxTags) \ {<<>>}
    /\ categories_list \in {q \in SeqsUpTo(CategoryNames, Cardinality(CategoryNames)) : NoRepeat(q)}
    /\ similarity \in [TagWords \X CategoryNames -> Similarities]
    /\ categories = EmptyCategories(categories_list)
    /\ cat_word = 1
    /\ cat_pc = "loop"

\* one iteration of the loop of lines 935-946: categories[chosen_category]
\* raises KeyError when chosen_category is still "other" and the list does
\* not hold it
CategorizeWord ==
    /\ cat_pc = "loop"
    /\ cat_word <= Len(all_tags)
    /\ \E best \in {ChooseCategory(all_tags[cat_word], categories_list, similarity,
                                   1, <<MinusOne, "other">>)} :
          IF Has(categories, best[2])
          THEN /\ categories' = [categories EXCEPT
                                   ![best[2]] = Put(@, all_tags[cat_word], best[1])]
               /\ cat_word' = cat_word + 1
               /\ cat_pc' = "loop"
          ELSE /\ cat_pc' = "KeyError"
               /\ UNCHANGED <<categories, cat_word>>
    /\ UNCHANGED <<all_tags, categories_list, similarity, notCatVars>>

\* line 948
CategorizeReturn ==
    /\ cat_pc = "loop"
    /\ cat_word > Len(all_tags)
    /\ cat_pc' = "returned"
    /\ UNCHANGED <<all_tags, categories_list, similarity, categories, cat_word,
                   notCatVars>>

CatNext == CategorizeWord \/ CategorizeReturn

\* the tags whose iteration is over
Categorized == {all_tags[i] : i \in 1..(cat_word - 1)}
MaxSimilarity(w) ==
    CHOOSE m \in {similarity[w, categories_list[i]] : i \in 1..Len(categories_list)} :
        \A i \in 1..Len(categories_list) : similarity[w, categories_list[i]] <= m
\* the first category of the list with the largest similarity to w
FirstBest(w) ==
    categories_list[CHOOSE i \in 1..Len(categories_list) :
        /\ similarity[w, categories_list[i]] = MaxSimilarity(w)
        /\ \A j \in 1..(i - 1) : similarity[w, categories_list[j]] < MaxSimilarity(w)]
PlacedIn(w, c) == Has(categories, c) /\ Has(categories[c], w)

\* C12 as stated: categorize_tags places each tag in the category of the
\* list whose similarity to the tag is the largest, the first of the list
\* when several share it.
C12_TagInFirstMostSimilarCategory ==
    categories_list # <<>> =>
        /\ cat_pc # "KeyError"
        /\ \A w \in Categorized : \A c \in CategoryNames :
              PlacedIn(w, c) <=> c = FirstBest(w)

\* C12, amended: the same for every tag whose largest similarity is above
\* -1; no tag is placed in two categories.
C12_TagInFirstMostSimilarCategoryAboveMinusOne ==
    categories_list # <<>> =>
        \A w \in Categorized :
            MaxSimilarity(w) > MinusOne =>
                \A c \in CategoryNames : PlacedIn(w, c) <=> c = FirstBest(w)

\* a tag was placed while two categories shared its largest similarity
C12_Witness ==
    \E w \in Categorized : \E i, j \in 1..Len(categories_list) :
        /\ i < j
        /\ MaxSimilarity(w) > MinusOne
        /\ similarity[w, categories_list[i]] = MaxSimilarity(w)
        /\ similarity[w, categories_list[j]] = MaxSimilarity(w)
        /\ PlacedIn(w, categories_list[i])

\* zero similarity to every category of the list, or no category at all
Unmatched(w) ==
    \A i \in 1..Len(categories_list) : similarity[w, categories_list[i]] = 0

\* C13: a tag that matches no category (zero similarity to every category
\* of the list, or an empty list) is placed in an "other" bucket of the
\* result, without error, whether or not "other" is in the list.
C13_UnmatchedTagInOther ==
    /\ cat_pc = "KeyError" => ~Unmatched(all_tags[cat_word])
    /\ \A w \in Categorized : Unmatched(w) => PlacedIn(w, "other")

(***************************************************************************)
(* closest_colour and get_colour_name                                      *)
(***************************************************************************)
\* some entries of webcolors.CSS3_HEX_TO_NAMES, in the order of the mapping,
\* the hex key already turned to its RGB triple by hex_to_rgb
Css3Names ==
    <<<<"black", <<0, 0, 0>>>>, <<"blue", <<0, 0, 255>>>>,
      <<"gray", <<128, 128, 128>>>>, <<"lime", <<0, 255, 0>>>>,
      <<"red", <<255, 0, 0>>>>, <<"white", <<255, 255, 255>>>>>>

\* rd + gd + bd of lines 775-777
SquaredDistance(c, requested) ==
    (c[1] - requested[1]) * (c[1] - requested[1])
    + (c[2] - requested[2]) * (c[2] - requested[2])
    + (c[3] - requested[3]) * (c[3] - requested[3])

\* min_colours after the loop of lines 774-778: each distance maps to the
\* name of the last entry at that distance
min_colours(requested) ==
    [d \in {SquaredDistance(Css3Names[i][2], requested) : i \in DOMAIN Css3Names} |->
        Css3Names[CHOOSE i \in DOMAIN Css3Names :
            /\ SquaredDistance(Css3Names[i][2], requested) = d
            /\ \A j \in DOMAIN Css3Names :
                  SquaredDistance(Css3Names[j][2], requested) = d => j <= i][1]]

MinOf(S) == CHOOSE m \in S : \A x \in S : m <= x
MaxOf(S) == CHOOSE m \in S : \A x \in S : x <= m

\* closest_colour with the largest key taken
closest_colour_max(requested) ==
    min_colours(requested)[MaxOf(DOMAIN min_colours(requested))]

\* line 779
closest_colour(requested) ==
    min_colours(requested)[MinOf(DOMAIN min_colours(requested))]

\* webcolors.rgb_to_name: <<"ok", name>> or <<"ValueError">>
rgb_to_name(requested) ==
    IF \E i \in DOMAIN Css3Names : Css3Names[i][2] = requested
    THEN <<"ok", Css3Names[CHOOSE i \in DOMAIN Css3Names : Css3Names[i][2] = requested][1]>>
    ELSE <<"ValueError">>

\* the values of a colour component tried
ColourLevels == {0, 64, 127, 128, 255}

ColourInit ==
    /\ requested_colour \in ColourLevels \X ColourLevels \X ColourLevels
    /\ actual_name = None
    /\ closest_name = None
    /\ colour_pc = "called"

\* lines 790-795
GetColourName ==
    /\ colour_pc = "called"
    /\ IF rgb_to_name(requested_colour)[1] = "ok"
       THEN /\ closest_name' = Str(rgb_to_name(requested_colour)[2])
            /\ actual_name' = Str(rgb_to_name(requested_colour)[2])
       ELSE /\ closest_name' = Str(closest_colour(requested_colour))
            /\ actual_name' = None
    /\ colour_pc' = "returned"
    /\ UNCHANGED <<requested_colour, notColourVars>>

ColourNext == GetColourName

ExactNames == {Css3Names[i][1] : i \in {j \in DOMAIN Css3Names : Css3Names[j][2] = requested_colour}}
\* the palette colours at the smallest squared distance of requested_colour
Nearest ==
    {i \in DOMAIN Css3Names :
        \A j \in DOMAIN Css3Names :
            SquaredDistance(Css3Names[i][2], requested_colour)
                <= SquaredDistance(Css3Names[j][2], requested_colour)}

\* C14: get_colour_name returns the exact palette name when the RGB value
\* has one, and otherwise the name of a palette colour whose squared RGB
\* distance to the requested colour is the smallest of the whole palette,
\* also when two palette colours are at that distance.
C14_ExactNameElseNearest ==
    colour_pc = "returned" =>
        IF ExactNames # {}
        THEN closest_name[2] \in ExactNames /\ actual_name = closest_name
        ELSE /\ actual_name = None
             /\ \E i \in Nearest : closest_name = Str(Css3Names[i][1])

\* a colour with no exact name and two nearest palette colours was named
C14_Witness ==
    /\ colour_pc = "returned"
    /\ ExactNames = {}
    /\ Cardinality(Nearest) >= 2
    /\ closest_name # None

(***************************************************************************)
(* graph_images_brand and graph_dominant_colors: the labels and values     *)
(* handed to the charts                                                    *)
(***************************************************************************)
\* a dictionary as the sequence of its <<key, value>> items, in the order
\* the keys were first set; d[k] += v, with 0 for a key not yet set
KeyIndex(d, k) == CHOOSE i \in 1..Len(d) : d[i][1] = k
HasKey(d, k) == \E i \in 1..Len(d) : d[i][1] = k
AddTo(d, k, v) ==
    IF HasKey(d, k) THEN [d EXCEPT ![KeyIndex(d, k)] = <<k, d[KeyIndex(d, k)][2] + v>>]
    ELSE Append(d, <<k, v>>)
ValueOf(d, k) == d[KeyIndex(d, k)][2]

\* the items in the order they came
Unsorted(items) == items

\* sorted(items, key=lambda x: x[1], reverse=True): the largest value first,
\* items of equal value in the order they came
RECURSIVE SortedByValue(_)
InsertByValue(s, item) ==
    LET before == {i \in 1..Len(s) : s[i][2] >= item[2]}
        n == Cardinality(before)
    IN  SubSeq(s, 1, n) \o <<item>> \o SubSeq(s, n + 1, Len(s))
SortedByValue(items) ==
    IF items = <<>> THEN <<>>
    ELSE InsertByValue(SortedByValue(SubSeq(items, 1, Len(items) - 1)), items[Len(items)])

\* q[:n] for n >= 0
FirstN(q, n) == SubSeq(q, 1, IF n < Len(q) THEN n ELSE Len(q))

\* lines 560-562: the count of each make that is not None
RECURSIVE BrandCounts(_, _, _)
BrandCounts(column, i, counts) ==
    IF i > Len(column) THEN counts
    ELSE IF column[i] = None THEN BrandCounts(column, i + 1, counts)
    ELSE BrandCounts(column, i + 1, AddTo(counts, StrOf(column[i]), 1))

\* webcolors.hex_to_rgb for the codes of the model: <<"ok", rgb>> or
\* <<"ValueError">>
hex_to_rgb(code) ==
    CASE code = "#ff0000" -> <<"ok", <<255, 0, 0>>>>
      [] code = "#fe0000" -> <<"ok", <<254, 0, 0>>>>
      [] code = "#0000ff" -> <<"ok", <<0, 0, 255>>>>
      [] code = "#7f7f7f" -> <<"ok", <<127, 127, 127>>>>
      [] OTHER -> <<"ValueError">>

\* the closest name get_colour_name returns (lines 790-795)
ClosestName(rgb) ==
    IF rgb_to_name(rgb)[1] = "ok" THEN rgb_to_name(rgb)[2] ELSE closest_colour(rgb)

\* lines 815-821 and 824-827: the cells that are None or that eval cannot
\* read are left out (in the model a cell is None, a string eval fails on,
\* or the list itself); the percentages of the others are added per code
RECURSIVE AddColours(_, _, _)
AddColours(image_colors, i, counts) ==
    IF i > Len(image_colors) THEN counts
    ELSE AddColours(image_colors, i + 1,
                    AddTo(counts, image_colors[i][1], image_colors[i][2]))
RECURSIVE ColorCounts(_, _, _)
ColorCounts(column, i, counts) ==
    IF i > Len(column) THEN counts
    ELSE IF column[i][1] # "list" THEN ColorCounts(column, i + 1, counts)
    ELSE ColorCounts(column, i + 1, AddColours(column[i][2], 1, counts))

\* lines 830-845: dict_res, the share per colour name, in hundredths: the
\* codes hex_to_rgb rejects are left out, round(color_counts[key] / 100, 5)
\* is added under the closest name of each other code
RECURSIVE DictRes(_, _, _)
DictRes(color_counts, i, res) ==
    IF i > Len(color_counts) THEN res
    ELSE IF hex_to_rgb(color_counts[i][1])[1] # "ok" THEN DictRes(color_counts, i + 1, res)
    ELSE DictRes(color_counts, i + 1,
                 AddTo(res, ClosestName(hex_to_rgb(color_counts[i][1])[2]),
                       color_counts[i][2]))

RECURSIVE SumValues(_)
SumValues(d) == IF d = <<>> THEN 0 ELSE d[1][2] + SumValues(Tail(d))

\* line 848: sum(dict_res.values()) > 100, the values in hundredths
SumAboveHundred(res) == SumValues(res) > 100 * 100

\* ---- the tables the handlers are tried on ----
TopMakes == {None, Str("Canon"), Str("NIKON"), Str("Undefined")}
TopColours ==
    {None, Str("["),
     List(<<>>),
     List(<<<<"#ff0000", 60>>, <<"#0000ff", 40>>>>),
     List(<<<<"#fe0000", 30>>, <<"#7f7f7f", 50>>, <<"#ff0000", 20>>>>),
     List(<<<<"#0000ff", 70>>, <<"#7f7f7f", 50>>>>),
     List(<<<<"zzz", 100>>>>),
     List(<<<<"#ff0000", 6000>>, <<"#0000ff", 6000>>>>)}
MaxRows == 4
MaxColumns == 3

TopInit ==
    /\ \/ /\ top_pc = "graph_images_brand"
          /\ top_column \in SeqsUpTo(TopMakes, MaxRows)
       \/ /\ top_pc = "graph_dominant_colors"
          /\ top_column \in SeqsUpTo(TopColours, MaxFiles)
    /\ top_n \in 0..MaxColumns
    /\ top_all = <<>>
    /\ top_pairs = <<>>

\* graph_images_brand, lines 556-568: counts, then labels and values
GraphImagesBrandCounts ==
    /\ top_pc = "graph_images_brand"
    /\ top_all' = BrandCounts(top_column, 1, <<>>)
    /\ top_pairs' = FirstN(SortedByValue(BrandCounts(top_column, 1, <<>>)), top_n)
    /\ top_pc' = "brand charts"
    /\ UNCHANGED <<top_column, top_n, notTopVars>>

\* graph_dominant_colors, lines 811-857: dict_res, the test of its sum,
\* then top_colors
GraphDominantColorsShares ==
    /\ top_pc = "graph_dominant_colors"
    /\ \E res \in {DictRes(ColorCounts(top_column, 1, <<>>), 1, <<>>)} :
          /\ top_all' = res
          /\ IF SumAboveHundred(res)
             THEN /\ top_pc' = "Exception"
                  /\ top_pairs' = <<>>
             ELSE /\ top_pc' = "colour charts"
                  /\ top_pairs' = FirstN(SortedByValue(res), top_n)
    /\ UNCHANGED <<top_column, top_n, notTopVars>>

TopNext == GraphImagesBrandCounts \/ GraphDominantColorsShares

\* the percentages the colour handler adds up, all cells and codes together
RECURSIVE SumPercentages(_)
SumPercentages(column) ==
    IF column = <<>> THEN 0
    ELSE (IF column[1][1] = "list" THEN SumValues(column[1][2]) ELSE 0)
         + SumPercentages(Tail(column))

\* C15: graph_dominant_colors fails with an error and renders no chart
\* whenever the colour percentages it adds up exceed 100, and renders a
\* chart only when that sum is at most 100.
C15_PercentagesAboveHundredRejected ==
    /\ top_pc = "Exception" => SumPercentages(top_column) > 100
    /\ top_pc = "colour charts" => SumPercentages(top_column) <= 100

Smaller(a, b) == IF a < b THEN a ELSE b

\* C16: the (label, count) list a counting handler passes to the chart is
\* sorted by count in non-increasing order and holds exactly the
\* min(N, number of distinct labels) labels with the largest counts, each
\* with its full count over the whole table.
C16_TopLabelsSortedWithFullCounts ==
    top_pc \in {"brand charts", "colour charts"} =>
        /\ \A i, j \in 1..Len(top_pairs) : i < j => top_pairs[i][2] >= top_pairs[j][2]
        /\ \A i, j \in 1..Len(top_pairs) : top_pairs[i][1] = top_pairs[j][1] => i = j
        /\ Len(top_pairs) = Smaller(top_n, Len(top_all))
        /\ \A i \in 1..Len(top_pairs) :
              /\ HasKey(top_all, top_pairs[i][1])
              /\ top_pairs[i][2] = ValueOf(top_all, top_pairs[i][1])
        /\ \A k \in 1..Len(top_all) :
              (\A i \in 1..Len(top_pairs) : top_pairs[i][1] # top_all[k][1]) =>
                  \A i \in 1..Len(top_pairs) : top_all[k][2] <= top_pairs[i][2]
        /\ top_pc = "brand charts" =>
              \A k \in 1..Len(top_all) :
                  top_all[k][2] = Cardinality({r \in 1..Len(top_column) :
                                                 top_column[r] = Str(top_all[k][1])})

\* a handler cut a list that came unsorted and had more labels than asked
C16_Witness ==
    /\ top_pc \in {"brand charts", "colour charts"}
    /\ top_n >= 2
    /\ Len(top_all) > top_n
    /\ \E i, j \in 1..Len(top_all) : i < j /\ top_all[i][2] < top_all[j][2]

(***************************************************************************)
(* get_coordinates, get_country and the markers of                         *)
(* display_coordinates_on_map                                              *)
(***************************************************************************)
\* lines 598-607: the files whose latitude and longitude are both there,
\* each with the list [latitude, longitude, altitude]; the dictionary is the
\* sequence of its <<file, list>> items
RECURSIVE get_coordinates(_, _, _)
get_coordinates(rows, i, coords) ==
    IF i > Len(rows) THEN coords
    ELSE IF rows[i][1] # None /\ rows[i][2] # None
    THEN get_coordinates(rows, i + 1, Append(coords, <<i, rows[i]>>))
    ELSE get_coordinates(rows, i + 1, coords)

\* the rows tried: latitude, longitude, altitude
Paris == <<Float(RatInt(48)), Float(RatInt(2)), Float(RatInt(35))>>
NewYork == <<Float(RatInt(40)), Float(RatInt(-74)), Float(RatInt(10))>>
GeoRows == {Paris, NewYork, <<None, None, None>>, <<Float(RatInt(48)), None, Float(RatInt(35))>>}
\* the lists get_country is handed when it is called on a dictionary of
\* its own: some already end with a country
GeoLists == {Paris, NewYork, Append(Paris, Str("France"))}
\* what one call of geolocator.reverse leads to: a country appended, None
\* appended (an address without country), or an exception
GeoOutcomes == {"France", "None", "error"}

GeoInit ==
    /\ \/ /\ geo_pc = "display_coordinates_on_map"
          /\ geo_rows \in SeqsUpTo(GeoRows, MaxFiles)
          /\ geo_input = <<>>
       \/ /\ geo_pc = "get_country"
          /\ geo_rows = <<>>
          /\ \E q \in SeqsUpTo(GeoLists, MaxFiles) :
                geo_input = [i \in 1..Len(q) |-> <<i, q[i]>>]
    /\ coordinates = geo_input
    /\ geo_key = 1
    /\ lookups = <<>>
    /\ markers = <<>>

\* display_coordinates_on_map up to the call of get_country (lines 645-647,
\* 598-609)
GetCoordinates ==
    /\ geo_pc = "display_coordinates_on_map"
    /\ geo_input' = get_coordinates(geo_rows, 1, <<>>)
    /\ coordinates' = get_coordinates(geo_rows, 1, <<>>)
    /\ geo_pc' = "get_country for the map"
    /\ UNCHANGED <<geo_rows, geo_key, lookups, markers, notGeoVars>>

InGetCountry == geo_pc \in {"get_country", "get_country for the map"}

\* one iteration of the loop of lines 624-632 on an entry that has no
\* country yet: one call of the geocoder
LookUpCountry ==
    /\ InGetCountry
    /\ geo_key <= Len(coordinates)
    /\ Len(coordinates[geo_key][2]) < 4
    /\ lookups' = Append(lookups, coordinates[geo_key][2])
    /\ \E outcome \in GeoOutcomes :
          coordinates' =
              IF outcome = "error" THEN coordinates
              ELSE [coordinates EXCEPT ![geo_key] =
                       <<@[1], Append(@[2], IF outcome = "None" THEN None ELSE Str(outcome))>>]
    /\ geo_key' = geo_key + 1
    /\ UNCHANGED <<geo_rows, geo_input, markers, geo_pc, notGeoVars>>

\* one iteration on an entry that has its country
SkipResolved ==
    /\ InGetCountry
    /\ geo_key <= Len(coordinates)
    /\ Len(coordinates[geo_key][2]) >= 4
    /\ geo_key' = geo_key + 1
    /\ UNCHANGED <<geo_rows, geo_input, coordinates, lookups, markers, geo_pc,
                   notGeoVars>>

\* line 634
GetCountryReturn ==
    /\ InGetCountry
    /\ geo_key > Len(coordinates)
    /\ geo_pc' = IF geo_pc = "get_country" THEN "returned" ELSE "markers"
    /\ UNCHANGED <<geo_rows, geo_input, coordinates, geo_key, lookups, markers,
                   notGeoVars>>

\* the loop of lines 653-655 from the entry i on: lat, lon, alt = coords
\* raises ValueError on a list of four elements
RECURSIVE AddMarkers(_, _, _)
AddMarkers(coords, i, ms) ==
    IF i > Len(coords) THEN <<"ok", ms>>
    ELSE IF Len(coords[i][2]) # 3 THEN <<"ValueError", ms>>
    ELSE AddMarkers(coords, i + 1, Append(ms, <<coords[i][2][1], coords[i][2][2], coords[i][1]>>))

\* lines 650-676, for output_type 'html' or 'png'
DisplayMarkers ==
    /\ geo_pc = "markers"
    /\ \E r \in {AddMarkers(coordinates, 1, <<>>)} :
          /\ markers' = r[2]
          /\ geo_pc' = IF r[1] = "ok" THEN "map returned" ELSE r[1]
    /\ UNCHANGED <<geo_rows, geo_input, coordinates, geo_key, lookups, notGeoVars>>

GeoNext ==
    \/ GetCoordinates
    \/ LookUpCountry
    \/ SkipResolved
    \/ GetCountryReturn
    \/ DisplayMarkers

\* the coordinates of the entries get_country was handed without a country
Unresolved == {geo_input[i][2] : i \in {j \in 1..Len(geo_input) : Len(geo_input[j][2]) < 4}}

\* C17: in one run of get_country exactly one lookup is issued per unique
\* coordinate that lacks a country (none for the entries that carry one,
\* and not one per file when files share a coordinate); a failed lookup is
\* not retried and the remaining entries are still processed.
C17_OneLookupPerUniqueCoordinate ==
    geo_pc \in {"returned", "markers"} =>
        /\ Len(lookups) = Cardinality(Unresolved)
        /\ {lookups[i] : i \in 1..Len(lookups)} = Unresolved
        /\ geo_key = Len(coordinates) + 1

\* the files of the table with both a latitude and a longitude
WithLatLon == {i \in 1..Len(geo_rows) : geo_rows[i][1] # None /\ geo_rows[i][2] # None}

\* C19: for output_type 'html' or 'png' display_coordinates_on_map
\* completes without error and adds exactly one marker for every file that
\* has both latitude and longitude, whether the lookup of its country
\* succeeded or failed.
C19_OneMarkerPerLocatedFile ==
    /\ geo_pc # "ValueError"
    /\ geo_pc = "map returned" =>
          /\ Len(markers) = Cardinality(WithLatLon)
          /\ {markers[i][3] : i \in 1..Len(markers)} = WithLatLon

(***************************************************************************)
(* graph_images_altitudes: the intervals and their counts                  *)
(***************************************************************************)
\* lines 727-731: the altitudes above 0 (whole numbers of metres in the
\* model), in the order of the list
RECURSIVE PositiveAltitudes(_)
PositiveAltitudes(cl) ==
    IF cl = <<>> THEN <<>>
    ELSE (IF Head(cl) > 0 THEN <<Head(cl)>> ELSE <<>>) \o PositiveAltitudes(Tail(cl))

MaxOfSeq(q) == MaxOf({q[i] : i \in 1..Len(q)})

\* np.linspace(0, m, n + 1), line 734: the edge number i is i * (m / n) in
\* binary64, the last one m itself
linspace(m, n) ==
    [i \in 1..(n + 1) |-> <<(i - 1) * m, n, i - 1 < n /\ EdgeBelow(m, n, i - 1)>>]

\* line 737: the pairs of int() of two edges that follow each other
intervalles(edges) ==
    [i \in 1..(Len(edges) - 1) |-> <<IntOfEdge(edges[i]), IntOfEdge(edges[i + 1])>>]

\* the test of line 743
InIntervalle(altitude, intervalle) ==
    intervalle[1] <= altitude /\ altitude < intervalle[2]

\* lines 740-744
AltitudeCounts(altitudes, ivs) ==
    [i \in 1..Len(ivs) |->
        Cardinality({a \in 1..Len(altitudes) : InIntervalle(altitudes[a], ivs[i])})]

\* the altitudes tried
Altitudes == {-5, 0, 1, 35, 61, 100, 900}

AltInit ==
    /\ coord_list \in SeqsUpTo(Altitudes, MaxFiles) \ {<<>>}
    /\ nb_inter \in 1..MaxIntervals
    /\ alt_counts = <<>>
    /\ alt_pc = "called"

\* lines 727-747; max() of no altitude raises ValueError
GraphImagesAltitudesCounts ==
    /\ alt_pc = "called"
    /\ IF PositiveAltitudes(coord_list) = <<>>
       THEN /\ alt_pc' = "ValueError"
            /\ alt_counts' = <<>>
       ELSE /\ alt_pc' = "counted"
            /\ alt_counts' =
                  AltitudeCounts(PositiveAltitudes(coord_list),
                      intervalles(linspace(MaxOfSeq(PositiveAltitudes(coord_list)), nb_inter)))
    /\ UNCHANGED <<coord_list, nb_inter, notAltVars>>

AltNext == GraphImagesAltitudesCounts

\* C18: with at least one positive altitude and nb_inter >= 1, every
\* positive altitude, the largest one too, is counted in exactly one of the
\* nb_inter intervals: the counts add up to the number of positive
\* altitudes.
C18_EveryPositiveAltitudeCounted ==
    alt_pc = "counted" =>
        /\ Len(alt_counts) = nb_inter
        /\ SumSeq(alt_counts) = Len(PositiveAltitudes(coord_list))

(***************************************************************************)
(* Specifications: one part of the program runs, the others rest           *)
(***************************************************************************)
\* dms_to_decimal applied to one triple of arguments
InitDms == DmsInit /\ GpsIdle /\ MakeIdle /\ DateIdle /\ LoadIdle /\ SvcIdle /\ SizeIdle /\ CmIdle /\ CatIdle /\ ColourIdle /\ TopIdle /\ GeoIdle /\ AltIdle
SpecDms == InitDms /\ [][DmsNext]_vars

\* clean_gps_infos applied to one table
InitGps == DmsIdle /\ GpsInit /\ MakeIdle /\ DateIdle /\ LoadIdle /\ SvcIdle /\ SizeIdle /\ CmIdle /\ CatIdle /\ ColourIdle /\ TopIdle /\ GeoIdle /\ AltIdle
SpecGps == InitGps /\ [][GpsNext]_vars

\* the Make cleaning applied to one string, twice
InitMake == DmsIdle /\ GpsIdle /\ MakeInit /\ DateIdle /\ LoadIdle /\ SvcIdle /\ SizeIdle /\ CmIdle /\ CatIdle /\ ColourIdle /\ TopIdle /\ GeoIdle /\ AltIdle
SpecMake == InitMake /\ [][MakeNext]_vars

\* the DateTimeOriginal cleaning applied to one table
InitDate == DmsIdle /\ GpsIdle /\ MakeIdle /\ DateInit /\ LoadIdle /\ SvcIdle /\ SizeIdle /\ CmIdle /\ CatIdle /\ ColourIdle /\ TopIdle /\ GeoIdle /\ AltIdle
SpecDate == InitDate /\ [][DateNext]_vars

\* get_metadata_from_mariadb_db run on one query result
InitLoad == DmsIdle /\ GpsIdle /\ MakeIdle /\ DateIdle /\ LoadInit /\ SvcIdle /\ SizeIdle /\ CmIdle /\ CatIdle /\ ColourIdle /\ TopIdle /\ GeoIdle /\ AltIdle
SpecLoad == InitLoad /\ [][LoadNext]_vars

InitSize == DmsIdle /\ GpsIdle /\ MakeIdle /\ DateIdle /\ LoadIdle /\ SvcIdle /\ SizeInit /\ CmIdle /\ CatIdle /\ ColourIdle /\ TopIdle /\ GeoIdle /\ AltIdle
SpecSize == InitSize /\ [][SizeNext]_vars

\* the service serving requests one after the other
Init == DmsIdle /\ GpsIdle /\ MakeIdle /\ DateIdle /\ LoadIdle /\ SvcInit /\ SizeIdle /\ CmIdle /\ CatIdle /\ ColourIdle /\ TopIdle /\ GeoIdle /\ AltIdle
Spec == Init /\ [][SvcNext]_vars

\* clean_metadata run on one table
InitCm == DmsIdle /\ GpsIdle /\ MakeIdle /\ DateIdle /\ LoadIdle /\ SvcIdle /\ SizeIdle /\ CmInit /\ CatIdle /\ ColourIdle /\ TopIdle /\ GeoIdle /\ AltIdle
SpecCm == InitCm /\ [][CmNext]_vars

\* categorize_tags run on one table and one list of categories
InitCat == DmsIdle /\ GpsIdle /\ MakeIdle /\ DateIdle /\ LoadIdle /\ SvcIdle /\ SizeIdle /\ CmIdle /\ CatInit /\ ColourIdle /\ TopIdle /\ GeoIdle /\ AltIdle
SpecCat == InitCat /\ [][CatNext]_vars

\* get_colour_name called on one colour
InitColour == DmsIdle /\ GpsIdle /\ MakeIdle /\ DateIdle /\ LoadIdle /\ SvcIdle /\ SizeIdle /\ CmIdle /\ CatIdle /\ ColourInit /\ TopIdle /\ GeoIdle /\ AltIdle
SpecColour == InitColour /\ [][ColourNext]_vars

\* one counting handler run on one table
InitTop == DmsIdle /\ GpsIdle /\ MakeIdle /\ DateIdle /\ LoadIdle /\ SvcIdle /\ SizeIdle /\ CmIdle /\ CatIdle /\ ColourIdle /\ TopInit /\ GeoIdle /\ AltIdle
SpecTop == InitTop /\ [][TopNext]_vars

\* get_country run on one dictionary, alone or for the map
InitGeo == DmsIdle /\ GpsIdle /\ MakeIdle /\ DateIdle /\ LoadIdle /\ SvcIdle /\ SizeIdle /\ CmIdle /\ CatIdle /\ ColourIdle /\ TopIdle /\ GeoInit /\ AltIdle
SpecGeo == InitGeo /\ [][GeoNext]_vars

\* graph_images_altitudes run on one coordinate list
InitAlt == DmsIdle /\ GpsIdle /\ MakeIdle /\ DateIdle /\ LoadIdle /\ SvcIdle /\ SizeIdle /\ CmIdle /\ CatIdle /\ ColourIdle /\ TopIdle /\ GeoIdle /\ AltInit
SpecAlt == InitAlt /\ [][AltNext]_vars

=============================================================================
